---- MODULE Spec2Model ----
(***************************************************************************)
(* Room booking bot: recurrence expansion, conflict detection and the      *)
(* booking wizard that calls them (src/db/queries/bookings.py,             *)
(* src/bot/handlers/booking.py).                                           *)
(*                                                                         *)
(* Encoding of the Python values:                                          *)
(*   date string "YYYY-MM-DD"            <<y, m, d>>                        *)
(*   datetime string "YYYY-MM-DD HH:MM"  <<y, m, d, hh, mi>>                *)
(*   date object                         proleptic Gregorian ordinal       *)
(*   datetime object                     ordinal * 1440 + minute of day    *)
(*   timedelta                           minutes                           *)
(*   "a,b,c" (recurrence_days)           the sequence of its comma-        *)
(*                                       separated tokens; a token that is *)
(*                                       not a digit string is negative    *)
(*   None                                <<>> for a string-or-None value,  *)
(*                                       "None" for recurrence_type        *)
(***************************************************************************)
EXTENDS Integers, Sequences, FiniteSets, TLC

VARIABLES
    bookings,   \* table bookings: sequence of rows, row i has id i
    call,       \* harness of the pure functions: the call and its result
    rooms,      \* table rooms: room id -> row
    fsm_state,  \* MemoryStorage: user -> wizard state ("None" when cleared)
    fsm_data,   \* MemoryStorage: user -> the session's data dict
    tasks,      \* user -> the handler coroutines in flight, in arrival order
    passed,     \* history: user -> candidates whose final check came back empty
    audit,      \* history: one entry per row of bookings inserted by the wizard
    events      \* number of updates received so far

wizard == <<rooms, fsm_state, fsm_data, tasks, passed, audit, events>>

vars == <<bookings, call, rooms, fsm_state, fsm_data, tasks, passed, audit, events>>

None == <<>>

MinutesPerDay == 24 * 60

----------------------------------------------------------------------------
(* datetime: strptime, date(), time(), weekday(), day, combine             *)

IsLeap(y) == (y % 4 = 0 /\ y % 100 # 0) \/ y % 400 = 0

DaysInMonth(y, m) ==
    IF m = 2 THEN (IF IsLeap(y) THEN 29 ELSE 28)
    ELSE IF m \in {4, 6, 9, 11} THEN 30 ELSE 31

RECURSIVE DaysBeforeMonth(_, _)
DaysBeforeMonth(y, m) ==
    IF m = 1 THEN 0 ELSE DaysBeforeMonth(y, m - 1) + DaysInMonth(y, m - 1)

DaysBeforeYear(y) ==
    365 * (y - 1) + ((y - 1) \div 4) - ((y - 1) \div 100) + ((y - 1) \div 400)

\* the years the calendar is inverted over
CalendarYears == 2023 .. 2027

\* datetime.strptime(s, DATE_FMT).date()
_parse_date(s) == DaysBeforeYear(s[1]) + DaysBeforeMonth(s[1], s[2]) + s[3]

\* datetime.strptime(s, DT_FMT)
_parse_dt(s) == _parse_date(<<s[1], s[2], s[3]>>) * MinutesPerDay + s[4] * 60 + s[5]

DateOf(dt) == dt \div MinutesPerDay
TimeOf(dt) == dt % MinutesPerDay
Combine(d, t) == d * MinutesPerDay + t

YearOf(ord) ==
    CHOOSE y \in CalendarYears : DaysBeforeYear(y) < ord /\ ord <= DaysBeforeYear(y + 1)

MonthOf(ord) ==
    LET y == YearOf(ord)
        n == ord - DaysBeforeYear(y)
    IN  CHOOSE m \in 1 .. 12 :
            DaysBeforeMonth(y, m) < n /\ n <= DaysBeforeMonth(y, m) + DaysInMonth(y, m)

\* date.day
DayOfMonth(ord) ==
    LET y == YearOf(ord)
    IN  ord - DaysBeforeYear(y) - DaysBeforeMonth(y, MonthOf(ord))

\* date.weekday(): 0 = Monday .. 6 = Sunday
Weekday(ord) == (ord + 6) % 7

\* date.isoformat()
IsoFormat(ord) == <<YearOf(ord), MonthOf(ord), DayOfMonth(ord)>>

Min(a, b) == IF a <= b THEN a ELSE b
Max(a, b) == IF a >= b THEN a ELSE b

\* ORDER BY / list.sort on a key: the elements, records with a field key, in
\* ascending key order, equal keys in their order of arrival
RECURSIVE SortByKey(_)
SortByKey(s) ==
    IF s = <<>> THEN <<>>
    ELSE LET last == s[Len(s)]
             rest == SortByKey(SubSeq(s, 1, Len(s) - 1))
             NotAfter(x) == x.key <= last.key
             After(x) == x.key > last.key
         IN  SelectSeq(rest, NotAfter) \o <<last>> \o SelectSeq(rest, After)

----------------------------------------------------------------------------
(* _expand_occurrences                                                     *)

\* d.strip().isdigit()
IsDigitToken(t) == t >= 0

\* [int(d) for d in days_raw.split(",") if d.strip().isdigit()], days_raw = s or ""
DayNums(s) ==
    LET days_raw == IF s = None THEN <<-1>> ELSE s
    IN  SelectSeq(days_raw, IsDigitToken)

InSeq(x, s) == \E i \in 1 .. Len(s) : s[i] = x

\* mutant: the weekday test reads isoweekday() (1 = Monday .. 7 = Sunday)
Include_isoweekday(rec_type, cursor, day_nums) ==
    IF rec_type = "daily" THEN TRUE
    ELSE IF rec_type = "weekly" THEN InSeq(Weekday(cursor) + 1, day_nums)
    ELSE IF rec_type = "monthly" THEN InSeq(DayOfMonth(cursor), day_nums)
    ELSE FALSE

\* mutant: a day-of-month past the end of the month falls on the month's last day
Include_clamped(rec_type, cursor, day_nums) ==
    IF rec_type = "daily" THEN TRUE
    ELSE IF rec_type = "weekly" THEN InSeq(Weekday(cursor), day_nums)
    ELSE IF rec_type = "monthly"
         THEN \/ InSeq(DayOfMonth(cursor), day_nums)
              \/ /\ DayOfMonth(cursor) = DaysInMonth(YearOf(cursor), MonthOf(cursor))
                 /\ \E i \in 1 .. Len(day_nums) : day_nums[i] > DayOfMonth(cursor)
    ELSE FALSE

\* if/elif chain on rec_type with include = False as the default
Include(rec_type, cursor, day_nums) ==
    IF rec_type = "daily" THEN TRUE
    ELSE IF rec_type = "weekly" THEN InSeq(Weekday(cursor), day_nums)
    ELSE IF rec_type = "monthly" THEN InSeq(DayOfMonth(cursor), day_nums)
    ELSE FALSE

\* mutant: the window's first day is excluded
InWindow_exclusive(d, window_start, window_end) == window_start < d /\ d <= window_end

\* mutant: only the window's end is tested
InWindow_end_only(d, window_start, window_end) == d <= window_end

\* window_start <= start.date() <= window_end
InWindow(d, window_start, window_end) == window_start <= d /\ d <= window_end

\* mutant: the last day is excluded
LoopContinues_exclusive(cursor, until, window_end) == cursor < Min(until, window_end)

\* mutant: the loop runs to the window's end whatever the until date
LoopContinues_until_ignored(cursor, until, window_end) == cursor <= window_end

\* the loop condition: cursor <= min(until, window_end)
LoopContinues(cursor, until, window_end) == cursor <= Min(until, window_end)

\* mutant: the end is the anchor's end time of day put on the cursor's date
Occurrence_end_time(cursor, start, end) ==
    <<Combine(cursor, TimeOf(start)), Combine(cursor, TimeOf(end))>>

\* duration = end - start; datetime.combine(cursor, start.time()); occ_start + duration
Occurrence(cursor, start, end) ==
    LET duration == end - start
        occ_start == Combine(cursor, TimeOf(start))
    IN  <<occ_start, occ_start + duration>>

\* the number of times the loop body runs
LoopCount(first, until, window_end) ==
    CHOOSE k \in 0 .. Max(0, Max(until, window_end) - first + 2) :
        /\ ~LoopContinues(first + k, until, window_end)
        /\ \A j \in 0 .. k - 1 : LoopContinues(first + j, until, window_end)

\* mutant: the cursor walks back from the last day to the first
Cursors_descending(first, until, window_end) ==
    LET n == LoopCount(first, until, window_end)
    IN  [k \in 1 .. n |-> first + n - k]

\* the values cursor takes: start.date(), then cursor += timedelta(days=1)
\* while the loop condition holds
Cursors(first, until, window_end) ==
    [k \in 1 .. LoopCount(first, until, window_end) |-> first + k - 1]

\* the while loop: the dates appended to results, in the order of the cursor
ExpandLoop(first, until, window_start, window_end, rec_type, day_nums, start, end) ==
    LET Appended(cursor) == cursor >= window_start /\ Include(rec_type, cursor, day_nums)
        dates == SelectSeq(Cursors(first, until, window_end), Appended)
    IN  [i \in 1 .. Len(dates) |-> Occurrence(dates[i], start, end)]

_expand_occurrences(booking, window_start, window_end) ==
    LET start == _parse_dt(booking.start_dt)
        end == _parse_dt(booking.end_dt)
        rec_type == booking.recurrence_type
    IN  IF rec_type = "None"
        THEN IF InWindow(DateOf(start), window_start, window_end)
             THEN <<<<start, end>>>>
             ELSE <<>>
        ELSE LET until_str == booking.recurrence_until
                 until == IF until_str # None THEN _parse_date(until_str) ELSE window_end
                 day_nums == DayNums(booking.recurrence_days)
             IN  ExpandLoop(DateOf(start), until, window_start, window_end,
                            rec_type, day_nums, start, end)

----------------------------------------------------------------------------
(* Table bookings: save_booking, cancel_booking, the SELECT of a room's    *)
(* non-cancelled rows                                                      *)

\* INSERT INTO bookings (...): the new row gets the next id; is_cancelled
\* takes the column default 0
save_booking(table, room_id, user_id, company_id, title, start_dt, end_dt, recurrence_type, recurrence_days, recurrence_until) ==
    Append(table,
           [id |-> Len(table) + 1,
            room_id |-> room_id, user_id |-> user_id, company_id |-> company_id,
            title |-> title, start_dt |-> start_dt, end_dt |-> end_dt,
            recurrence_type |-> recurrence_type,
            recurrence_days |-> recurrence_days,
            recurrence_until |-> recurrence_until,
            is_cancelled |-> FALSE])

\* mutant: the UPDATE flips is_cancelled
cancel_booking_toggling(table, booking_id) ==
    [i \in 1 .. Len(table) |->
        IF table[i].id = booking_id
        THEN [table[i] EXCEPT !.is_cancelled = ~table[i].is_cancelled]
        ELSE table[i]]

\* UPDATE bookings SET is_cancelled = 1 WHERE id = ?
cancel_booking(table, booking_id) ==
    [i \in 1 .. Len(table) |->
        IF table[i].id = booking_id THEN [table[i] EXCEPT !.is_cancelled = TRUE]
        ELSE table[i]]

\* mutant: the SELECT keeps the cancelled rows instead of the live ones
RoomRowSelected_cancelled_only(row, room_id) == row.room_id = room_id /\ row.is_cancelled

\* WHERE b.room_id = ? AND b.is_cancelled = 0
RoomRowSelected(row, room_id) == row.room_id = room_id /\ ~row.is_cancelled

\* mutant: a repeated call gets the rows in the opposite order
SelectRoomBookings_reversed_when_repeated(table, room_id) ==
    LET Selected(row) == RoomRowSelected(row, room_id)
        rows == SelectSeq(table, Selected)
    IN  IF call.calls = 0 THEN rows
        ELSE [i \in 1 .. Len(rows) |-> rows[Len(rows) + 1 - i]]

\* SELECT b.*, u.username, u.full_name FROM bookings b JOIN users u ...
\* WHERE b.room_id = ? AND b.is_cancelled = 0, rows in table order; every
\* booking's user has a users row (get_or_create_user runs before any handler)
SelectRoomBookings(table, room_id) ==
    LET Selected(row) == RoomRowSelected(row, room_id)
    IN  SelectSeq(table, Selected)

----------------------------------------------------------------------------
(* check_conflicts                                                         *)

\* timedelta(days=366): the lookahead of a candidate without an until date
LookaheadDays == 366

\* mutant: the lookahead is 365 days
WindowEnd_one_day_short(new_start, recurrence_until) ==
    IF recurrence_until # None THEN _parse_date(recurrence_until)
    ELSE DateOf(new_start) + 365

\* win_end: the until date if given, else new_start.date() + 366 days
WindowEnd(new_start, recurrence_until) ==
    IF recurrence_until # None THEN _parse_date(recurrence_until)
    ELSE DateOf(new_start) + LookaheadDays

\* mutant: closed intervals, touching endpoints conflict
Overlaps_closed(p_start, p_end, e_start, e_end) ==
    p_start <= e_end /\ p_end >= e_start

\* mutant: a conflict only when the candidate starts inside the existing slot
Overlaps_start_inside(p_start, p_end, e_start, e_end) ==
    e_start <= p_start /\ p_start < e_end

\* p_start < e_end and p_end > e_start
Overlaps(p_start, p_end, e_start, e_end) ==
    p_start < e_end /\ p_end > e_start

\* mutant: an existing occurrence is reported once, however many candidate
\* occurrences overlap it
ConflictsWith_once_per_existing(ex, proposed_occurrences, ex_occurrences) ==
    LET Hit(e) == \E k \in 1 .. Len(proposed_occurrences) :
                    Overlaps(proposed_occurrences[k][1], proposed_occurrences[k][2],
                             e[1], e[2])
        hits == SelectSeq(ex_occurrences, Hit)
    IN  [k \in 1 .. Len(hits) |->
            [booking_id |-> ex.id, title |-> ex.title,
             start_dt |-> hits[k][1], end_dt |-> hits[k][2],
             username |-> ex.user_id]]

\* for p in proposed_occurrences: for e in ex_occurrences: if overlap: append
ConflictsWith(ex, proposed_occurrences, ex_occurrences) ==
    LET np == Len(proposed_occurrences)
        ne == Len(ex_occurrences)
        pairs == [k \in 1 .. np * ne |->
                    <<proposed_occurrences[((k - 1) \div ne) + 1],
                      ex_occurrences[((k - 1) % ne) + 1]>>]
        Hit(pr) == Overlaps(pr[1][1], pr[1][2], pr[2][1], pr[2][2])
        hits == SelectSeq(pairs, Hit)
    IN  [k \in 1 .. Len(hits) |->
            [booking_id |-> ex.id, title |-> ex.title,
             start_dt |-> hits[k][2][1], end_dt |-> hits[k][2][2],
             username |-> ex.user_id]]

\* mutant: the loop does not skip exclude_booking_id
RECURSIVE ConflictLoop_exclusion_ignored(_, _, _, _, _, _)
ConflictLoop_exclusion_ignored(existing, i, exclude_booking_id, proposed_occurrences, win_start, win_end) ==
    IF i > Len(existing) THEN <<>>
    ELSE ConflictsWith(existing[i], proposed_occurrences,
                       _expand_occurrences(existing[i], win_start, win_end))
         \o ConflictLoop_exclusion_ignored(existing, i + 1, exclude_booking_id,
                                           proposed_occurrences, win_start, win_end)

\* for ex in existing: skip exclude_booking_id, expand, collect the conflicts
RECURSIVE ConflictLoop(_, _, _, _, _, _)
ConflictLoop(existing, i, exclude_booking_id, proposed_occurrences, win_start, win_end) ==
    IF i > Len(existing) THEN <<>>
    ELSE LET ex == existing[i]
             rest == ConflictLoop(existing, i + 1, exclude_booking_id,
                                  proposed_occurrences, win_start, win_end)
         IN  IF exclude_booking_id # 0 /\ ex.id = exclude_booking_id
             THEN rest
             ELSE ConflictsWith(ex, proposed_occurrences,
                                _expand_occurrences(ex, win_start, win_end)) \o rest

\* mutant: the candidate's anchor slot is taken as its occurrence without
\* expanding the candidate against the window
check_conflicts_anchor_unexpanded(table, room_id, start_dt, end_dt, recurrence_type, recurrence_days, recurrence_until, exclude_booking_id) ==
    LET new_start == _parse_dt(start_dt)
        win_start == DateOf(new_start)
    IN  ConflictLoop(SelectRoomBookings(table, room_id), 1, exclude_booking_id,
                     <<<<new_start, _parse_dt(end_dt)>>>>, win_start, win_start)

\* exclude_booking_id = 0 stands for None
check_conflicts(table, room_id, start_dt, end_dt, recurrence_type, recurrence_days, recurrence_until, exclude_booking_id) ==
    LET new_start == _parse_dt(start_dt)
        proposed == [start_dt |-> start_dt, end_dt |-> end_dt,
                     recurrence_type |-> recurrence_type,
                     recurrence_days |-> recurrence_days,
                     recurrence_until |-> recurrence_until]
        win_end == WindowEnd(new_start, recurrence_until)
        win_start == DateOf(new_start)
        proposed_occurrences == _expand_occurrences(proposed, win_start, win_end)
    IN  IF proposed_occurrences = <<>> THEN <<>>
        ELSE ConflictLoop(SelectRoomBookings(table, room_id), 1, exclude_booking_id,
                          proposed_occurrences, win_start, win_end)

----------------------------------------------------------------------------
(* Users, rooms and the bot at rest: no session, no update being handled.  *)

Users == {1, 2}

Rooms == {1, 2}

\* FSMContext.get_state() of a user without a state
NoState == "None"

\* FSMContext.get_data() of a user without data: the empty dict
EmptyData == <<>>

\* the two rooms of the company, both active
RoomsTable ==
    [r \in Rooms |-> [id |-> r, company_id |-> 1, name |-> IF r = 1 THEN "A" ELSE "B",
                      is_active |-> TRUE]]

WizardIdle ==
    /\ rooms = RoomsTable
    /\ fsm_state = [u \in Users |-> NoState]
    /\ fsm_data = [u \in Users |-> EmptyData]
    /\ tasks = [u \in Users |-> <<>>]
    /\ passed = [u \in Users |-> {}]
    /\ audit = <<>>
    /\ events = 0

----------------------------------------------------------------------------
(* The pure functions under bounded inputs: one call of                    *)
(* _expand_occurrences per behaviour.                                      *)

\* number of days, counted from 2024-01-01, that the expansion windows reach
ExpandHorizon == 91

Jan1 == _parse_date(<<2024, 1, 1>>)

IdleCall == [op |-> "none", pc |-> "idle"]

\* anchor start and end: a Monday, a Wednesday at the end of a month, and a
\* slot that ends after midnight
ExpandSlots ==
    { <<<<2024, 1, 1, 10, 0>>, <<2024, 1, 1, 11, 0>>>>,
      <<<<2024, 1, 31, 9, 30>>, <<2024, 1, 31, 10, 0>>>>,
      <<<<2024, 1, 1, 23, 0>>, <<2024, 1, 2, 1, 0>>>> }

ExpandUntils == { <<2024, 1, 14>>, <<2024, 3, 31>> }

ExpandRecurrences ==
    { [recurrence_type |-> "None", recurrence_days |-> None, recurrence_until |-> None] }
    \cup { [recurrence_type |-> "daily", recurrence_days |-> None, recurrence_until |-> u]
           : u \in ExpandUntils }
    \cup { [recurrence_type |-> "weekly", recurrence_days |-> d, recurrence_until |-> u]
           : d \in { <<0, 2>>, <<6>> }, u \in ExpandUntils }
    \cup { [recurrence_type |-> "monthly", recurrence_days |-> d, recurrence_until |-> u]
           : d \in { <<31>>, <<1, 15>> }, u \in ExpandUntils }

ExpandBookings ==
    { [start_dt |-> s[1], end_dt |-> s[2],
       recurrence_type |-> r.recurrence_type,
       recurrence_days |-> r.recurrence_days,
       recurrence_until |-> r.recurrence_until]
      : s \in ExpandSlots, r \in ExpandRecurrences }

ExpandWindowStarts == { Jan1, Jan1 + 9, Jan1 + 31 }
ExpandWindowEnds == { Jan1 + 4, Jan1 + 13, Jan1 + ExpandHorizon - 1 }

InitExpand ==
    /\ bookings = <<>>
    /\ call \in { [op |-> "expand", pc |-> "ready", booking |-> b,
                   window_start |-> ws, window_end |-> we, result |-> <<>>]
                  : b \in ExpandBookings, ws \in ExpandWindowStarts,
                    we \in ExpandWindowEnds }
    /\ WizardIdle

ExpandCall ==
    /\ call.op = "expand" /\ call.pc = "ready"
    /\ call' = [call EXCEPT
                    !.pc = "done",
                    !.result = _expand_occurrences(call.booking, call.window_start,
                                                   call.window_end)]
    /\ UNCHANGED <<bookings, wizard>>

NextExpand == ExpandCall

SpecExpand == InitExpand /\ [][NextExpand]_vars

----------------------------------------------------------------------------
(* check_conflicts under bounded inputs: a store of up to MaxExisting rows *)
(* and one call per behaviour.                                             *)

MaxExisting == 2

\* slots on Monday 2024-01-01: B overlaps A and C, C starts when A ends
SlotA == <<<<2024, 1, 1, 10, 0>>, <<2024, 1, 1, 11, 0>>>>
SlotB == <<<<2024, 1, 1, 10, 30>>, <<2024, 1, 1, 11, 30>>>>
SlotC == <<<<2024, 1, 1, 11, 0>>, <<2024, 1, 1, 12, 0>>>>

CheckSlots == { SlotA, SlotB, SlotC }

\* a slot of 24 hours and a slot on the next day that begins before it ends
SlotE == <<<<2024, 1, 1, 10, 30>>, <<2024, 1, 2, 10, 30>>>>
SlotF == <<<<2024, 1, 2, 10, 0>>, <<2024, 1, 2, 11, 0>>>>

\* the candidate's slot: a daily candidate of 24 hours has two occurrences
\* that overlap one stored occurrence
CandidateSlots == CheckSlots \cup { SlotE }

CheckRecurrences ==
    { [recurrence_type |-> "None", recurrence_days |-> None, recurrence_until |-> None],
      [recurrence_type |-> "daily", recurrence_days |-> None,
       recurrence_until |-> <<2024, 1, 3>>] }

CheckRows ==
    { [room_id |-> r, user_id |-> 1, company_id |-> 1, title |-> "T",
       start_dt |-> s[1], end_dt |-> s[2],
       recurrence_type |-> rec.recurrence_type,
       recurrence_days |-> rec.recurrence_days,
       recurrence_until |-> rec.recurrence_until,
       is_cancelled |-> c]
      : r \in {1, 2}, s \in CheckSlots, rec \in CheckRecurrences, c \in BOOLEAN }

WithIds(rows) ==
    [i \in 1 .. Len(rows) |->
        [id |-> i, room_id |-> rows[i].room_id, user_id |-> rows[i].user_id,
         company_id |-> rows[i].company_id, title |-> rows[i].title,
         start_dt |-> rows[i].start_dt, end_dt |-> rows[i].end_dt,
         recurrence_type |-> rows[i].recurrence_type,
         recurrence_days |-> rows[i].recurrence_days,
         recurrence_until |-> rows[i].recurrence_until,
         is_cancelled |-> rows[i].is_cancelled]]

CheckStores ==
    UNION { { WithIds(rows) : rows \in [1 .. n -> CheckRows] } : n \in 0 .. MaxExisting }

InitCheck ==
    /\ bookings \in CheckStores
    /\ call \in { [op |-> "check", pc |-> "ready", room_id |-> 1,
                   start_dt |-> s[1], end_dt |-> s[2],
                   recurrence_type |-> rec.recurrence_type,
                   recurrence_days |-> rec.recurrence_days,
                   recurrence_until |-> rec.recurrence_until,
                   exclude_booking_id |-> x, result |-> <<>>]
                  : s \in CandidateSlots, rec \in CheckRecurrences, x \in {0, 1} }
    /\ WizardIdle

CheckCall ==
    /\ call.op = "check" /\ call.pc = "ready"
    /\ call' = [call EXCEPT
                    !.pc = "done",
                    !.result = check_conflicts(bookings, call.room_id, call.start_dt,
                                               call.end_dt, call.recurrence_type,
                                               call.recurrence_days,
                                               call.recurrence_until,
                                               call.exclude_booking_id)]
    /\ UNCHANGED <<bookings, wizard>>

NextCheck == CheckCall

SpecCheck == InitCheck /\ [][NextCheck]_vars

----------------------------------------------------------------------------
(* The store when every insertion is one atomic step with its conflict     *)
(* check: check_conflicts returns empty and save_booking inserts, with no  *)
(* other statement in between.                                             *)

MaxBookings == 3

\* same-day slots, as the wizard builds them from one booking date
SlotD == <<<<2024, 1, 3, 10, 0>>, <<2024, 1, 3, 11, 0>>>>

AtomicSlots == { SlotA, SlotB, SlotC, SlotD }

AtomicRecurrences ==
    { [recurrence_type |-> "None", recurrence_days |-> None, recurrence_until |-> None],
      [recurrence_type |-> "weekly", recurrence_days |-> <<0, 2>>,
       recurrence_until |-> <<2024, 1, 8>>] }

InitAtomic ==
    /\ bookings = <<>>
    /\ call = IdleCall
    /\ WizardIdle

\* _check_and_confirm's check and cb_booking_confirm's save_booking in one step
BookAtomically(room_id, user_id, slot, rec) ==
    /\ Len(bookings) < MaxBookings
    /\ check_conflicts(bookings, room_id, slot[1], slot[2], rec.recurrence_type,
                       rec.recurrence_days, rec.recurrence_until, 0) = <<>>
    /\ bookings' = save_booking(bookings, room_id, user_id, 1, "T", slot[1], slot[2],
                                rec.recurrence_type, rec.recurrence_days,
                                rec.recurrence_until)
    /\ UNCHANGED <<call, wizard>>

\* cb_cancel_booking: cancel_booking(booking_id)
CancelStored(booking_id) ==
    /\ bookings' = cancel_booking(bookings, booking_id)
    /\ bookings' # bookings
    /\ UNCHANGED <<call, wizard>>

NextAtomic ==
    \/ \E room_id \in {1, 2}, user_id \in {1}, slot \in AtomicSlots,
          rec \in AtomicRecurrences :
            BookAtomically(room_id, user_id, slot, rec)
    \/ \E booking_id \in 1 .. MaxBookings : CancelStored(booking_id)

SpecAtomic == InitAtomic /\ [][NextAtomic]_vars

----------------------------------------------------------------------------
(* Properties of _expand_occurrences (SpecExpand)                          *)

Expanded == call.op = "expand" /\ call.pc = "done"

AnchorStart == _parse_dt(call.booking.start_dt)
AnchorEnd == _parse_dt(call.booking.end_dt)
AnchorDate == DateOf(AnchorStart)

SeqToSet(s) == { s[i] : i \in 1 .. Len(s) }

StartDates(occs) == { DateOf(occs[i][1]) : i \in 1 .. Len(occs) }

\* C4: for recurrence None, expand returns exactly [(anchor_start, anchor_end)]
\* when window_start <= anchor date <= window_end, and the empty list otherwise.
C4_NonRecurringRoundTrip ==
    (Expanded /\ call.booking.recurrence_type = "None") =>
        IF call.window_start <= AnchorDate /\ AnchorDate <= call.window_end
        THEN call.result = << <<AnchorStart, AnchorEnd>> >>
        ELSE call.result = <<>>

C4_Witness ==
    /\ Expanded /\ call.booking.recurrence_type = "None"
    /\ call.window_start = AnchorDate
    /\ call.result = << <<AnchorStart, AnchorEnd>> >>

\* the dates the specification selects for a recurring definition
SelectedDates(b, window_start, window_end) ==
    LET anchor == DateOf(_parse_dt(b.start_dt))
        days == SeqToSet(b.recurrence_days)
    IN  { d \in Max(anchor, window_start) .. Min(_parse_date(b.recurrence_until), window_end) :
            \/ b.recurrence_type = "daily"
            \/ b.recurrence_type = "weekly" /\ Weekday(d) \in days
            \/ b.recurrence_type = "monthly" /\ DayOfMonth(d) \in days }

WeeklyExample ==
    /\ call.booking.recurrence_type = "weekly"
    /\ call.booking.recurrence_days = <<0, 2>>
    /\ Weekday(AnchorDate) = 0
    /\ _parse_date(call.booking.recurrence_until) = AnchorDate + 13
    /\ call.window_start <= AnchorDate
    /\ call.window_end >= AnchorDate + 13

\* C5: for a recurring definition, expand returns exactly one occurrence for each
\* date d with max(anchor_date, window_start) <= d <= min(until, window_end) that
\* passes the kind's test (daily: all; weekly: weekday(d) in days, 0 = Monday;
\* monthly: day-of-month(d) in days) and none for any other date; Weekly({0,2})
\* anchored on a Monday with until = anchor + 13 days yields exactly 4.
C5_RecurringSelection ==
    (Expanded /\ call.booking.recurrence_type \in {"daily", "weekly", "monthly"}
              /\ call.booking.recurrence_until # None) =>
        /\ StartDates(call.result)
             = SelectedDates(call.booking, call.window_start, call.window_end)
        /\ Len(call.result)
             = Cardinality(SelectedDates(call.booking, call.window_start, call.window_end))
        /\ WeeklyExample => Len(call.result) = 4

C5_Witness ==
    /\ Expanded /\ WeeklyExample
    /\ Len(call.result) = 4
    /\ { Weekday(d) : d \in StartDates(call.result) } = {0, 2}

\* C6: for Daily(until = D) expanded against the window [anchor_date, D], the
\* number of occurrences equals (D - anchor_date) in days + 1.
C6_DailyBound ==
    (Expanded /\ call.booking.recurrence_type = "daily"
              /\ call.booking.recurrence_until # None
              /\ call.window_start = AnchorDate
              /\ call.window_end = _parse_date(call.booking.recurrence_until)
              /\ call.window_start <= call.window_end) =>
        Len(call.result) = _parse_date(call.booking.recurrence_until) - AnchorDate + 1

C6_Witness ==
    /\ Expanded /\ call.booking.recurrence_type = "daily"
    /\ call.window_start = AnchorDate
    /\ call.window_end = _parse_date(call.booking.recurrence_until)
    /\ call.booking.recurrence_until = <<2024, 1, 14>>
    /\ Len(call.result) = 14

MonthlyExample ==
    /\ call.booking.recurrence_type = "monthly"
    /\ call.booking.recurrence_days = <<31>>
    /\ call.booking.recurrence_until = <<2024, 3, 31>>
    /\ MonthOf(AnchorDate) = 1
    /\ call.window_start <= AnchorDate
    /\ call.window_end >= _parse_date(<<2024, 3, 31>>)

\* C7: a Monthly definition whose day set holds a day that a month does not have
\* produces no occurrence for that day in that month: every occurrence falls on
\* a date whose day-of-month is in the set; Monthly({31}, until = March 31)
\* anchored in January yields Jan 31 and Mar 31 and nothing in February.
C7_MonthlyShortMonthSkip ==
    (Expanded /\ call.booking.recurrence_type = "monthly") =>
        /\ \A i \in 1 .. Len(call.result) :
              DayOfMonth(DateOf(call.result[i][1])) \in SeqToSet(call.booking.recurrence_days)
        /\ MonthlyExample =>
              /\ Len(call.result) = 2
              /\ IsoFormat(DateOf(call.result[1][1])) = <<2024, 1, 31>>
              /\ IsoFormat(DateOf(call.result[2][1])) = <<2024, 3, 31>>

C7_Witness ==
    /\ Expanded /\ MonthlyExample
    /\ { MonthOf(d) : d \in StartDates(call.result) } = {1, 3}

\* C8: the sequence expand returns is strictly ascending by occurrence start,
\* with at most one occurrence per calendar date.
C8_SortedByStart ==
    Expanded =>
        \A i \in 1 .. Len(call.result) - 1 :
            /\ call.result[i][1] < call.result[i + 1][1]
            /\ DateOf(call.result[i][1]) < DateOf(call.result[i + 1][1])

C8_Witness ==
    /\ Expanded /\ Len(call.result) >= 3
    /\ call.window_start > AnchorDate

\* C9: every occurrence has the anchor's time-of-day start and the anchor's
\* duration; recurrence changes only the date.
C9_ConstantTimeAndDuration ==
    Expanded =>
        \A i \in 1 .. Len(call.result) :
            /\ TimeOf(call.result[i][1]) = TimeOf(AnchorStart)
            /\ call.result[i][2] - call.result[i][1] = AnchorEnd - AnchorStart

C9_Witness ==
    /\ Expanded /\ Len(call.result) >= 2
    /\ DateOf(AnchorEnd) > AnchorDate
    /\ DateOf(call.result[2][2]) > DateOf(call.result[2][1])

----------------------------------------------------------------------------
(* Properties of check_conflicts (SpecCheck)                               *)

Checked == call.op = "check" /\ call.pc = "done"

\* the candidate's occurrences and window, as the specification defines them
CandidateRow ==
    [start_dt |-> call.start_dt, end_dt |-> call.end_dt,
     recurrence_type |-> call.recurrence_type,
     recurrence_days |-> call.recurrence_days,
     recurrence_until |-> call.recurrence_until]

CheckWindowStart == DateOf(_parse_dt(call.start_dt))

CheckWindowEnd ==
    IF call.recurrence_until # None THEN _parse_date(call.recurrence_until)
    ELSE CheckWindowStart + 366

CandidateOccurrences ==
    SeqToSet(_expand_occurrences(CandidateRow, CheckWindowStart, CheckWindowEnd))

ExistingOccurrences(i) ==
    SeqToSet(_expand_occurrences(bookings[i], CheckWindowStart, CheckWindowEnd))

\* the stored definitions the check is about
Considered(i) ==
    /\ bookings[i].room_id = call.room_id
    /\ ~bookings[i].is_cancelled
    /\ ~(call.exclude_booking_id # 0 /\ bookings[i].id = call.exclude_booking_id)

Reported(i, e) ==
    \E k \in 1 .. Len(call.result) :
        /\ call.result[k].booking_id = bookings[i].id
        /\ call.result[k].start_dt = e[1]
        /\ call.result[k].end_dt = e[2]

\* C10: the overlap test is half-open: an existing occurrence e is reported iff
\* some candidate occurrence p has p.start < e.end and e.start < p.end; an
\* occurrence ending at 10:00 and one starting at 10:00 do not conflict.
C10_HalfOpenOverlap ==
    Checked =>
        \A i \in 1 .. Len(bookings) :
            Considered(i) =>
                \A e \in ExistingOccurrences(i) :
                    Reported(i, e) <=>
                        \E p \in CandidateOccurrences : p[1] < e[2] /\ e[1] < p[2]

\* the candidate starts at 11:00, when the only considered definition ends
C10_Witness ==
    /\ Checked
    /\ Len(bookings) = 1 /\ Considered(1)
    /\ bookings[1].start_dt = SlotA[1] /\ bookings[1].end_dt = SlotA[2]
    /\ call.start_dt = SlotC[1] /\ call.end_dt = SlotC[2]
    /\ call.result = <<>>

----------------------------------------------------------------------------
(* Properties of the store under atomic check-and-insert (SpecAtomic)      *)

\* every occurrence of a stored definition: its expansion from its anchor date
\* to its until date
AllOccurrences(row) ==
    LET anchor == DateOf(_parse_dt(row.start_dt))
        last == IF row.recurrence_until # None
                THEN Max(anchor, _parse_date(row.recurrence_until)) ELSE anchor
    IN  SeqToSet(_expand_occurrences(row, anchor, last))

DoubleBooked(i, j) ==
    /\ i # j
    /\ bookings[i].room_id = bookings[j].room_id
    /\ ~bookings[i].is_cancelled /\ ~bookings[j].is_cancelled
    /\ \E a \in AllOccurrences(bookings[i]), b \in AllOccurrences(bookings[j]) :
          a[1] < b[2] /\ b[1] < a[2]

\* C1: when every insertion is atomic with a conflict check of the inserted
\* definition that returned empty, no two distinct non-cancelled definitions of
\* one room have overlapping occurrences (same-day occurrences).
C1_NoDoubleBookingWhenAtomic ==
    \A i, j \in 1 .. Len(bookings) : ~DoubleBooked(i, j)

\* two live definitions share a room and a day, one recurring, and a third
\* that overlapped was cancelled before
C1_Witness ==
    /\ Len(bookings) = 3
    /\ bookings[1].is_cancelled
    /\ ~bookings[2].is_cancelled /\ ~bookings[3].is_cancelled
    /\ bookings[2].room_id = bookings[3].room_id
    /\ bookings[2].recurrence_type = "weekly"
    /\ bookings[1].room_id = bookings[2].room_id
    /\ \E a \in AllOccurrences(bookings[1]), b \in AllOccurrences(bookings[2]) :
          a[1] < b[2] /\ b[1] < a[2]
    /\ \E a \in AllOccurrences(bookings[2]), b \in AllOccurrences(bookings[3]) :
          DateOf(a[1]) = DateOf(b[1])

----------------------------------------------------------------------------
(* The booking wizard (src/bot/handlers/booking.py) under polling.         *)
(*                                                                         *)
(* Every update is handled by its own coroutine.  A handler starts in a    *)
(* state its filter accepts and runs up to its next await of the network   *)
(* or of the database, where other coroutines may run; the awaits that     *)
(* come before a handler first touches the session or the database (the    *)
(* middleware's queries, cb.answer()) are not scheduling points here.      *)
(* State reads and writes of the in-memory storage do not suspend.  One    *)
(* action is one such run: the first one carries the handler's name, the   *)
(* later ones are named after what the handler does when it resumes.  A    *)
(* database statement takes effect where it is submitted (one connection,  *)
(* statements served in order).                                            *)
(*                                                                         *)
(* More encodings: "HH:MM" is <<hh, mi>>; a message text is a record       *)
(* [fmt, v] with fmt the format the text has ("date", "time", "days",      *)
(* "range", "title" or "bad" for a text no parser accepts).                *)

\* updates received in one behaviour
MaxEvents == 4

\* coroutines in flight at the same time, over all users
MaxTasks == 2

RECURSIVE Sum(_, _)
Sum(f, S) == IF S = {} THEN 0 ELSE LET x == CHOOSE x \in S : TRUE IN f[x] + Sum(f, S \ {x})

InFlight == Sum([u \in Users |-> Len(tasks[u])], Users)

\* date.today(), the same day throughout a behaviour: Monday 2024-01-01
Today == Jan1

\* len(title) > 128
MaxTitleLen == 128

BadText == [fmt |-> "bad", v |-> <<>>]

\* state filter of a handler's decorator; "*" when it has none
StateFilter(h) ==
    CASE h = "msg_title" -> "entering_title"
      [] h \in {"cb_date_today", "cb_date_tomorrow", "msg_date"} -> "entering_date"
      [] h \in {"cb_start_time_slot", "msg_start_time"} -> "entering_start_time"
      [] h \in {"cb_duration_slot", "msg_duration_manual"} -> "entering_duration"
      [] h \in {"cb_rec_none", "cb_rec_daily", "cb_rec_weekly", "cb_rec_monthly"}
            -> "choosing_recurrence"
      [] h \in {"cb_weekday_toggle", "cb_weekday_confirm"} -> "choosing_weekdays"
      [] h = "msg_monthly_days" -> "entering_monthly_days"
      [] h \in {"cb_until_1year", "msg_rec_until"} -> "entering_recurrence_until"
      [] h = "cb_booking_confirm" -> "confirming"
      [] h = "msg_find_date" -> "find_entering_date"
      [] h = "msg_find_time" -> "find_entering_time"
      [] OTHER -> "*"

\* what the update carries: the callback data after its prefix, or the text
Payloads(h) ==
    CASE h \in {"cb_book_room", "cb_book_free_room"} -> Rooms
      [] h = "msg_title" -> { [fmt |-> "title", v |-> <<"T">>], [fmt |-> "title", v |-> <<>>] }
      [] h = "msg_date" ->
            { [fmt |-> "date", v |-> <<2024, 1, 3>>], [fmt |-> "date", v |-> <<2023, 12, 31>>],
              BadText }
      [] h = "cb_start_time_slot" -> { <<10, 0>>, <<10, 30>> }
      [] h = "msg_start_time" -> { [fmt |-> "time", v |-> <<23, 30>>], BadText }
      [] h = "cb_duration_slot" -> { 30, 60 }
      [] h = "msg_duration_manual" ->
            { [fmt |-> "time", v |-> <<11, 30>>], [fmt |-> "time", v |-> <<9, 0>>], BadText }
      [] h = "cb_weekday_toggle" -> { 0, 2 }
      [] h = "msg_monthly_days" ->
            { [fmt |-> "days", v |-> <<15, 1, 15>>], [fmt |-> "days", v |-> <<0>>], BadText }
      [] h = "msg_rec_until" ->
            { [fmt |-> "date", v |-> <<2024, 1, 8>>], [fmt |-> "date", v |-> <<2024, 1, 1>>],
              [fmt |-> "date", v |-> <<2025, 1, 2>>], BadText }
      [] h = "cb_booking_back" ->
            { "room", "title", "date", "start_time", "duration", "recurrence" }
      [] h = "msg_find_date" ->
            { [fmt |-> "date", v |-> <<2024, 1, 1>>], [fmt |-> "date", v |-> <<2024, 1, 10>>],
              [fmt |-> "date", v |-> <<2023, 12, 31>>], BadText }
      [] h = "msg_find_time" ->
            { [fmt |-> "range", v |-> <<<<10, 30>>, <<11, 30>>>>],
              [fmt |-> "range", v |-> <<<<11, 0>>, <<10, 0>>>>], BadText }
      [] h = "cb_cancel_booking" -> 1 .. Len(bookings)
      [] h = "cb_toggle_room" -> { 2 }
      [] OTHER -> { <<>> }

\* the coroutine k of user u is suspended at pc
Resumes(u, k, pc) ==
    /\ k \in 1 .. Len(tasks[u])
    /\ tasks[u][k].pc = pc

RemoveAt(s, k) == SubSeq(s, 1, k - 1) \o SubSeq(s, k + 1, Len(s))

\* an update of user u arrives in a state that handler h's filter accepts,
\* and the handler starts
Begin(u, h) ==
    /\ events < MaxEvents
    /\ InFlight < MaxTasks
    /\ StateFilter(h) \in {"*", fsm_state[u]}
    /\ events' = events + 1

\* the handler returns, or an exception ends it, before its first await
Done == UNCHANGED tasks

\* the handler suspends at its first await; it will resume at pc with locals loc
Suspend(u, pc, loc) == tasks' = [tasks EXCEPT ![u] = Append(@, [pc |-> pc, loc |-> loc])]

\* the resumed handler returns, or an exception ends it
Return(u, k) == tasks' = [tasks EXCEPT ![u] = RemoveAt(@, k)]

\* the resumed handler suspends again
Await(u, k, pc, loc) ==
    tasks' = [tasks EXCEPT ![u] = [@ EXCEPT ![k] = [pc |-> pc, loc |-> loc]]]

\* dict.update of state.update_data
Updated(data, kv) == kv @@ data

HasKeys(data, keys) == keys \subseteq DOMAIN data

\* data.get(key) of a string-or-None value
Get(data, key) == IF key \in DOMAIN data THEN data[key] ELSE None

\* data.get("recurrence_type")
GetType(data) == IF "recurrence_type" \in DOMAIN data THEN data["recurrence_type"] ELSE "None"

\* the six values check_conflicts and save_booking both take from the data
Candidate(data) ==
    [room_id |-> data["room_id"], start_dt |-> data["start_dt"], end_dt |-> data["end_dt"],
     recurrence_type |-> GetType(data), recurrence_days |-> Get(data, "recurrence_days"),
     recurrence_until |-> Get(data, "recurrence_until")]

\* History of a session's conflict checks: candidate c was checked with the
\* result conflicts while the table held Len(bookings) rows.  Only the latest
\* empty result of a candidate is kept.
Recorded(history, c, conflicts) ==
    IF conflicts # <<>> THEN history
    ELSE { p \in history : p.candidate # c }
         \cup { [candidate |-> c, seen |-> Len(bookings)] }

\* mutant: the state is reset and the data is kept
Cleared_state_only(u) ==
    /\ fsm_state' = [fsm_state EXCEPT ![u] = NoState]
    /\ fsm_data' = fsm_data
    /\ passed' = [passed EXCEPT ![u] = {}]

\* state.clear(): the session ends
Cleared(u) ==
    /\ fsm_state' = [fsm_state EXCEPT ![u] = NoState]
    /\ fsm_data' = [fsm_data EXCEPT ![u] = EmptyData]
    /\ passed' = [passed EXCEPT ![u] = {}]

\* await state.set_state(...) after the handler's reply has been sent
set_state_after_reply(u, k) ==
    /\ Resumes(u, k, "set_state")
    /\ fsm_state' = [fsm_state EXCEPT ![u] = tasks[u][k].loc]
    /\ Return(u, k)
    /\ UNCHANGED <<bookings, call, rooms, fsm_data, passed, audit, events>>

\* await state.clear() after the handler's reply has been sent
clear_after_reply(u, k) ==
    /\ Resumes(u, k, "clear")
    /\ Cleared(u)
    /\ Return(u, k)
    /\ UNCHANGED <<bookings, call, rooms, audit, events>>

\* SELECT * FROM rooms WHERE id = ?: the row, or None when there is none
get_room(room_id) == IF room_id \in DOMAIN rooms THEN rooms[room_id] ELSE None

\* cb_book_room up to get_room's SELECT in _start_booking_for_room
cb_book_room(u, payload) ==
    /\ Begin(u, "cb_book_room")
    /\ LET room == get_room(payload)
       IN  IF room = None \/ ~room.is_active THEN Done
           ELSE Suspend(u, "update_data", [room |-> room, find |-> <<>>])
    /\ UNCHANGED <<bookings, call, rooms, fsm_state, fsm_data, passed, audit>>

\* cb_book_free_room: get_data, then get_room's SELECT
cb_book_free_room(u, payload) ==
    /\ Begin(u, "cb_book_free_room")
    /\ LET room == get_room(payload)
           data == fsm_data[u]
           find == IF HasKeys(data, {"find_start_dt", "find_end_dt"})
                   THEN <<data["find_start_dt"], data["find_end_dt"]>> ELSE <<>>
       IN  IF room # None /\ room.is_active THEN Suspend(u, "update_data", [room |-> room, find |-> find])
           ELSE IF find # <<>> THEN Suspend(u, "prefill", [room |-> room, find |-> find])
           ELSE Done
    /\ UNCHANGED <<bookings, call, rooms, fsm_state, fsm_data, passed, audit>>

\* _start_booking_for_room resumes with the room: update_data(room_id, room_name)
start_booking_update_data(u, k) ==
    /\ Resumes(u, k, "update_data")
    /\ LET room == tasks[u][k].loc.room
       IN  fsm_data' = [fsm_data EXCEPT ![u] =
                            Updated(@, [room_id |-> room.id, room_name |-> room.name])]
    /\ Await(u, k, "entering_title", tasks[u][k].loc)
    /\ UNCHANGED <<bookings, call, rooms, fsm_state, passed, audit, events>>

\* _start_booking_for_room after edit_text: set_state(entering_title); then
\* cb_book_free_room stores the prefilled slot
start_booking_set_state(u, k) ==
    /\ Resumes(u, k, "entering_title")
    /\ fsm_state' = [fsm_state EXCEPT ![u] = "entering_title"]
    /\ LET find == tasks[u][k].loc.find
       IN  fsm_data' = [fsm_data EXCEPT ![u] =
                IF find = <<>> THEN @
                ELSE Updated(@, [prefilled_start_dt |-> find[1], prefilled_end_dt |-> find[2]])]
    /\ Return(u, k)
    /\ UNCHANGED <<bookings, call, rooms, passed, audit, events>>

\* cb_book_free_room when the room is unavailable: the prefilled slot is
\* stored all the same
book_free_room_prefill(u, k) ==
    /\ Resumes(u, k, "prefill")
    /\ LET find == tasks[u][k].loc.find
       IN  fsm_data' = [fsm_data EXCEPT ![u] =
                Updated(@, [prefilled_start_dt |-> find[1], prefilled_end_dt |-> find[2]])]
    /\ Return(u, k)
    /\ UNCHANGED <<bookings, call, rooms, fsm_state, passed, audit, events>>

msg_title(u, payload) ==
    /\ Begin(u, "msg_title")
    /\ LET title == payload.v
           data1 == Updated(fsm_data[u], [title |-> title])
       IN  IF Len(title) < 1 \/ Len(title) > MaxTitleLen
           THEN Done /\ UNCHANGED fsm_data
           ELSE IF "prefilled_start_dt" \notin DOMAIN data1
           THEN /\ fsm_data' = [fsm_data EXCEPT ![u] = data1]
                /\ Suspend(u, "set_state", "entering_date")
           ELSE IF "prefilled_end_dt" \notin DOMAIN data1
           THEN /\ fsm_data' = [fsm_data EXCEPT ![u] = data1]
                /\ Done
           ELSE /\ fsm_data' = [fsm_data EXCEPT ![u] =
                        Updated(data1, [start_dt |-> data1["prefilled_start_dt"],
                                        end_dt |-> data1["prefilled_end_dt"]])]
                /\ Suspend(u, "set_state", "choosing_recurrence")
    /\ UNCHANGED <<bookings, call, rooms, fsm_state, passed, audit>>

\* update_data(booking_date), then the start-time keyboard is sent
_set_booking_date(u, d) ==
    /\ fsm_data' = [fsm_data EXCEPT ![u] = Updated(@, [booking_date |-> IsoFormat(d)])]
    /\ Suspend(u, "set_state", "entering_start_time")
    /\ UNCHANGED <<bookings, call, rooms, fsm_state, passed, audit>>

cb_date_today(u) ==
    /\ Begin(u, "cb_date_today")
    /\ _set_booking_date(u, Today)

cb_date_tomorrow(u) ==
    /\ Begin(u, "cb_date_tomorrow")
    /\ _set_booking_date(u, Today + 1)

\* _parse_date_input succeeds on a text in date format
IsDateText(text) == text.fmt = "date"

msg_date(u, payload) ==
    /\ Begin(u, "msg_date")
    /\ LET text == payload
       IN  IF ~IsDateText(text) \/ _parse_date(text.v) < Today
           THEN /\ Done
                /\ UNCHANGED <<bookings, call, rooms, fsm_state, fsm_data, passed, audit>>
           ELSE _set_booking_date(u, _parse_date(text.v))

\* update_data(start_time); data["booking_date"]; the duration keyboard is sent
_proceed_to_duration(u, start_time_str) ==
    /\ fsm_data' = [fsm_data EXCEPT ![u] = Updated(@, [start_time |-> start_time_str])]
    /\ IF "booking_date" \in DOMAIN fsm_data[u]
       THEN Suspend(u, "set_state", "entering_duration")
       ELSE Done
    /\ UNCHANGED <<bookings, call, rooms, fsm_state, passed, audit>>

cb_start_time_slot(u, payload) ==
    /\ Begin(u, "cb_start_time_slot")
    /\ _proceed_to_duration(u, payload)

msg_start_time(u, payload) ==
    /\ Begin(u, "msg_start_time")
    /\ LET text == payload
       IN  IF text.fmt # "time"
           THEN /\ Done
                /\ UNCHANGED <<bookings, call, rooms, fsm_state, fsm_data, passed, audit>>
           ELSE _proceed_to_duration(u, text.v)

\* mutant: an end that is not after the start is accepted
_apply_duration_any_end(u, end_time_str) ==
    LET data == fsm_data[u]
        start_dt == data["booking_date"] \o data["start_time"]
        end_dt == data["booking_date"] \o end_time_str
        c == [room_id |-> data["room_id"], start_dt |-> start_dt, end_dt |-> end_dt,
              recurrence_type |-> "None", recurrence_days |-> None,
              recurrence_until |-> None]
        early_conflicts == check_conflicts(bookings, c.room_id, c.start_dt, c.end_dt,
                                           c.recurrence_type, c.recurrence_days,
                                           c.recurrence_until, 0)
    IN  /\ IF \/ ~HasKeys(data, {"booking_date", "start_time"})
              \/ "room_id" \notin DOMAIN data
           THEN Done /\ UNCHANGED passed
           ELSE /\ Suspend(u, "early_check",
                           [start_dt |-> start_dt, end_dt |-> end_dt,
                            early_conflicts |-> early_conflicts # <<>>])
                /\ passed' = [passed EXCEPT ![u] = Recorded(@, c, early_conflicts)]
        /\ UNCHANGED <<bookings, call, rooms, fsm_state, fsm_data, audit>>

\* _apply_duration up to the early check_conflicts
_apply_duration(u, end_time_str) ==
    LET data == fsm_data[u]
        start_dt == data["booking_date"] \o data["start_time"]
        end_dt == data["booking_date"] \o end_time_str
        c == [room_id |-> data["room_id"], start_dt |-> start_dt, end_dt |-> end_dt,
              recurrence_type |-> "None", recurrence_days |-> None,
              recurrence_until |-> None]
        early_conflicts == check_conflicts(bookings, c.room_id, c.start_dt, c.end_dt,
                                           c.recurrence_type, c.recurrence_days,
                                           c.recurrence_until, 0)
    IN  /\ IF \/ ~HasKeys(data, {"booking_date", "start_time"})
              \/ _parse_dt(end_dt) <= _parse_dt(start_dt)
              \/ "room_id" \notin DOMAIN data
           THEN Done /\ UNCHANGED passed
           ELSE /\ Suspend(u, "early_check",
                           [start_dt |-> start_dt, end_dt |-> end_dt,
                            early_conflicts |-> early_conflicts # <<>>])
                /\ passed' = [passed EXCEPT ![u] = Recorded(@, c, early_conflicts)]
        /\ UNCHANGED <<bookings, call, rooms, fsm_state, fsm_data, audit>>

\* strftime("%H:%M") of a datetime
TimeStr(dt) == <<TimeOf(dt) \div 60, TimeOf(dt) % 60>>

cb_duration_slot(u, payload) ==
    /\ Begin(u, "cb_duration_slot")
    /\ LET data == fsm_data[u]
       IN  IF ~HasKeys(data, {"booking_date", "start_time"})
           THEN /\ Done
                /\ UNCHANGED <<bookings, call, rooms, fsm_state, fsm_data, passed, audit>>
           ELSE _apply_duration(u,
                    TimeStr(_parse_dt(data["booking_date"] \o data["start_time"])
                            + payload))

msg_duration_manual(u, payload) ==
    /\ Begin(u, "msg_duration_manual")
    /\ LET text == payload
       IN  IF text.fmt # "time"
           THEN /\ Done
                /\ UNCHANGED <<bookings, call, rooms, fsm_state, fsm_data, passed, audit>>
           ELSE _apply_duration(u, text.v)

\* _apply_duration resumes with the early conflicts
apply_duration_checked(u, k) ==
    /\ Resumes(u, k, "early_check")
    /\ LET loc == tasks[u][k].loc
       IN  IF loc.early_conflicts
           THEN Return(u, k) /\ UNCHANGED fsm_data
           ELSE /\ fsm_data' = [fsm_data EXCEPT ![u] =
                        Updated(@, [start_dt |-> loc.start_dt, end_dt |-> loc.end_dt])]
                /\ Await(u, k, "set_state", "choosing_recurrence")
    /\ UNCHANGED <<bookings, call, rooms, fsm_state, passed, audit, events>>

\* _check_and_confirm / _check_and_confirm_msg up to check_conflicts' SELECT,
\* entered with the data as the calling handler left it
CheckAndConfirm(u, data) ==
    /\ fsm_data' = [fsm_data EXCEPT ![u] = data]
    /\ IF ~HasKeys(data, {"room_id", "start_dt", "end_dt"})
       THEN Done /\ UNCHANGED passed
       ELSE LET c == Candidate(data)
                conflicts == check_conflicts(bookings, c.room_id, c.start_dt, c.end_dt,
                                             c.recurrence_type, c.recurrence_days,
                                             c.recurrence_until, 0)
            IN  /\ Suspend(u, "checked", conflicts # <<>>)
                /\ passed' = [passed EXCEPT ![u] = Recorded(@, c, conflicts)]
    /\ UNCHANGED <<bookings, call, rooms, fsm_state, audit>>

\* _check_and_confirm resumes with the conflicts: they are shown and the
\* session is cleared afterwards, or set_state(confirming)
check_and_confirm_checked(u, k) ==
    /\ Resumes(u, k, "checked")
    /\ IF tasks[u][k].loc
       THEN /\ Await(u, k, "clear", <<>>)
            /\ UNCHANGED fsm_state
       ELSE /\ fsm_state' = [fsm_state EXCEPT ![u] = "confirming"]
            /\ Return(u, k)
    /\ UNCHANGED <<bookings, call, rooms, fsm_data, passed, audit, events>>

cb_rec_none(u) ==
    /\ Begin(u, "cb_rec_none")
    /\ CheckAndConfirm(u, Updated(fsm_data[u],
            [recurrence_type |-> "None", recurrence_days |-> None,
             recurrence_until |-> None]))

cb_rec_daily(u) ==
    /\ Begin(u, "cb_rec_daily")
    /\ fsm_data' = [fsm_data EXCEPT ![u] =
            Updated(@, [recurrence_type |-> "daily", recurrence_days |-> None])]
    /\ Suspend(u, "set_state", "entering_recurrence_until")
    /\ UNCHANGED <<bookings, call, rooms, fsm_state, passed, audit>>

cb_rec_weekly(u) ==
    /\ Begin(u, "cb_rec_weekly")
    /\ fsm_data' = [fsm_data EXCEPT ![u] =
            Updated(@, [recurrence_type |-> "weekly", selected_weekdays |-> <<>>])]
    /\ Suspend(u, "set_state", "choosing_weekdays")
    /\ UNCHANGED <<bookings, call, rooms, fsm_state, passed, audit>>

cb_rec_monthly(u) ==
    /\ Begin(u, "cb_rec_monthly")
    /\ fsm_data' = [fsm_data EXCEPT ![u] = Updated(@, [recurrence_type |-> "monthly"])]
    /\ Suspend(u, "set_state", "entering_monthly_days")
    /\ UNCHANGED <<bookings, call, rooms, fsm_state, passed, audit>>

\* data.get("selected_weekdays", [])
SelectedWeekdays(data) ==
    IF "selected_weekdays" \in DOMAIN data THEN data["selected_weekdays"] ELSE <<>>

\* sorted(...) of a list of integers
Sorted(s) == SortSeq(s, LAMBDA a, b : a < b)

\* list(set(...)) of a list, in some order
RECURSIVE Distinct(_)
Distinct(s) ==
    IF s = <<>> THEN <<>>
    ELSE IF InSeq(Head(s), Tail(s)) THEN Distinct(Tail(s))
    ELSE <<Head(s)>> \o Distinct(Tail(s))

cb_weekday_toggle(u, payload) ==
    /\ Begin(u, "cb_weekday_toggle")
    /\ LET day == payload
           selected == SelectedWeekdays(fsm_data[u])
           toggled == IF InSeq(day, selected)
                      THEN SelectSeq(selected, LAMBDA x : x # day)
                      ELSE Append(selected, day)
       IN  fsm_data' = [fsm_data EXCEPT ![u] = Updated(@, [selected_weekdays |-> toggled])]
    /\ Done
    /\ UNCHANGED <<bookings, call, rooms, fsm_state, passed, audit>>

cb_weekday_confirm(u) ==
    /\ Begin(u, "cb_weekday_confirm")
    /\ LET selected == SelectedWeekdays(fsm_data[u])
       IN  IF selected = <<>>
           THEN Done /\ UNCHANGED fsm_data
           ELSE /\ fsm_data' = [fsm_data EXCEPT ![u] =
                        Updated(@, [recurrence_days |-> Sorted(selected)])]
                /\ Suspend(u, "set_state", "entering_recurrence_until")
    /\ UNCHANGED <<bookings, call, rooms, fsm_state, passed, audit>>

msg_monthly_days(u, payload) ==
    /\ Begin(u, "msg_monthly_days")
    /\ LET text == payload
           days == text.v
       IN  IF \/ text.fmt # "days"
              \/ days = <<>>
              \/ \E i \in 1 .. Len(days) : days[i] < 1 \/ days[i] > 31
           THEN Done /\ UNCHANGED fsm_data
           ELSE /\ fsm_data' = [fsm_data EXCEPT ![u] =
                        Updated(@, [recurrence_days |-> Sorted(Distinct(days))])]
                /\ Suspend(u, "set_state", "entering_recurrence_until")
    /\ UNCHANGED <<bookings, call, rooms, fsm_state, passed, audit>>

\* booking_date = data.get("booking_date", data.get("start_dt", "")[:10]) and
\* the start date parsed from it, today when it is empty
StartDate(data) ==
    LET booking_date == IF "booking_date" \in DOMAIN data THEN data["booking_date"]
                        ELSE IF "start_dt" \in DOMAIN data
                        THEN SubSeq(data["start_dt"], 1, 3) ELSE <<>>
    IN  IF booking_date # <<>> THEN _parse_date(booking_date) ELSE Today

\* date.replace(year=...) raises ValueError for a day the year does not have
CanReplaceYear(d, year) == DayOfMonth(d) <= DaysInMonth(year, MonthOf(d))

ReplaceYear(d, year) == _parse_date(<<year, MonthOf(d), DayOfMonth(d)>>)

cb_until_1year(u) ==
    /\ Begin(u, "cb_until_1year")
    /\ LET start_date == StartDate(fsm_data[u])
           year == YearOf(start_date) + 1
       IN  IF ~CanReplaceYear(start_date, year)
           THEN /\ Done
                /\ UNCHANGED <<bookings, call, rooms, fsm_state, fsm_data, passed, audit>>
           ELSE CheckAndConfirm(u, Updated(fsm_data[u],
                    [recurrence_until |-> IsoFormat(ReplaceYear(start_date, year))]))

msg_rec_until(u, payload) ==
    /\ Begin(u, "msg_rec_until")
    /\ LET text == payload
       IN  IF ~IsDateText(text) \/ _parse_date(text.v) <= StartDate(fsm_data[u])
           THEN /\ Done
                /\ UNCHANGED <<bookings, call, rooms, fsm_state, fsm_data, passed, audit>>
           ELSE CheckAndConfirm(u, Updated(fsm_data[u],
                    [recurrence_until |-> IsoFormat(_parse_date(text.v))]))

\* active_company["company_id"] of the users: all are members of one company
ActiveCompany == 1

\* the history entry of a row cb_booking_confirm inserts
Audit(u, c) ==
    [user |-> u,
     checked |-> \E p \in passed[u] : p.candidate = c,
     seen |-> IF \E p \in passed[u] : p.candidate = c
              THEN (CHOOSE p \in passed[u] : p.candidate = c).seen ELSE -1]

\* cb_booking_confirm: get_data and save_booking's INSERT
cb_booking_confirm(u) ==
    /\ Begin(u, "cb_booking_confirm")
    /\ LET data == fsm_data[u]
       IN  IF ~HasKeys(data, {"room_id", "title", "start_dt", "end_dt"})
           THEN Done /\ UNCHANGED <<bookings, audit>>
           ELSE LET c == Candidate(data)
                IN  /\ bookings' = save_booking(bookings, c.room_id, u, ActiveCompany,
                                       data["title"], c.start_dt, c.end_dt,
                                       c.recurrence_type, c.recurrence_days,
                                       c.recurrence_until)
                    /\ audit' = Append(audit, Audit(u, c))
                    /\ Suspend(u, "saved", <<>>)
    /\ UNCHANGED <<call, rooms, fsm_state, fsm_data, passed>>

\* cb_booking_confirm after save_booking: state.clear()
booking_confirm_saved(u, k) ==
    /\ Resumes(u, k, "saved")
    /\ Cleared(u)
    /\ Return(u, k)
    /\ UNCHANGED <<bookings, call, rooms, audit, events>>

\* the state a back button leads to
BackState(step) ==
    CASE step = "title" -> "entering_title"
      [] step = "date" -> "entering_date"
      [] step = "start_time" -> "entering_start_time"
      [] step = "duration" -> "entering_duration"
      [] step = "recurrence" -> "choosing_recurrence"

\* cb_booking_back: "room" clears the session at once; a known step sets its
\* state once the step's prompt has been sent; any other step does nothing
cb_booking_back(u, payload) ==
    /\ Begin(u, "cb_booking_back")
    /\ LET step == payload
       IN  IF step = "room"
           THEN Cleared(u) /\ Done
           ELSE /\ Suspend(u, "set_state", BackState(step))
                /\ UNCHANGED <<fsm_state, fsm_data, passed>>
    /\ UNCHANGED <<bookings, call, rooms, audit>>

cb_cancel_booking_flow(u) ==
    /\ Begin(u, "cb_cancel_booking_flow")
    /\ Cleared(u)
    /\ Done
    /\ UNCHANGED <<bookings, call, rooms, audit>>

cb_main_menu(u) ==
    /\ Begin(u, "cb_main_menu")
    /\ Cleared(u)
    /\ Done
    /\ UNCHANGED <<bookings, call, rooms, audit>>

\* cb_find_free_room: the prompt is sent, then set_state(find_entering_date)
cb_find_free_room(u) ==
    /\ Begin(u, "cb_find_free_room")
    /\ Suspend(u, "set_state", "find_entering_date")
    /\ UNCHANGED <<bookings, call, rooms, fsm_state, fsm_data, passed, audit>>

msg_find_date(u, payload) ==
    /\ Begin(u, "msg_find_date")
    /\ LET text == payload
       IN  IF ~IsDateText(text) \/ _parse_date(text.v) < Today
           THEN Done /\ UNCHANGED fsm_data
           ELSE /\ fsm_data' = [fsm_data EXCEPT ![u] =
                        Updated(@, [find_date |-> IsoFormat(_parse_date(text.v))])]
                /\ Suspend(u, "set_state", "find_entering_time")
    /\ UNCHANGED <<bookings, call, rooms, fsm_state, passed, audit>>

\* _parse_time_range accepts "HH:MM-HH:MM" with the end after the start
IsTimeRange(text) ==
    /\ text.fmt = "range"
    /\ text.v[2][1] * 60 + text.v[2][2] > text.v[1][1] * 60 + text.v[1][2]

\* names of rooms in the order of ORDER BY name
RoomNames == <<"A", "B", "C">>

NameRank(name) == CHOOSE i \in 1 .. Len(RoomNames) : RoomNames[i] = name

\* mutant: the SELECT without ORDER BY name
SelectActiveRooms_in_table_order(company_id) ==
    LET all == [r \in 1 .. Cardinality(DOMAIN rooms) |-> rooms[r]]
        Selected(room) == room.company_id = company_id /\ room.is_active
    IN  SelectSeq(all, Selected)

\* SELECT * FROM rooms WHERE company_id = ? AND is_active = 1 ORDER BY name;
\* rooms of the same name come in table order
SelectActiveRooms(company_id) ==
    LET all == [r \in 1 .. Cardinality(DOMAIN rooms) |-> rooms[r]]
        Selected(room) == room.company_id = company_id /\ room.is_active
        selected == SelectSeq(all, Selected)
        keyed == [i \in 1 .. Len(selected) |->
                    [key |-> NameRank(selected[i].name), room |-> selected[i]]]
        sorted == SortByKey(keyed)
    IN  [i \in 1 .. Len(sorted) |-> sorted[i].room]

\* find_free_rooms: the active rooms of the company without a conflict, in
\* the order of all_rooms
find_free_rooms(table, company_id, start_dt, end_dt) ==
    LET Free(room) ==
            check_conflicts(table, room.id, start_dt, end_dt, "None", None, None, 0) = <<>>
    IN  SelectSeq(SelectActiveRooms(company_id), Free)

\* msg_find_time up to find_free_rooms' SELECTs
msg_find_time(u, payload) ==
    /\ Begin(u, "msg_find_time")
    /\ LET text == payload
           data == fsm_data[u]
           start_dt == data["find_date"] \o text.v[1]
           end_dt == data["find_date"] \o text.v[2]
       IN  IF ~IsTimeRange(text) \/ "find_date" \notin DOMAIN data
           THEN Done /\ UNCHANGED fsm_data
           ELSE /\ fsm_data' = [fsm_data EXCEPT ![u] =
                        Updated(@, [find_start_dt |-> start_dt, find_end_dt |-> end_dt])]
                /\ IF find_free_rooms(bookings, ActiveCompany, start_dt, end_dt) = <<>>
                   THEN Suspend(u, "clear", <<>>)
                   ELSE Done
    /\ UNCHANGED <<bookings, call, rooms, fsm_state, passed, audit>>

\* cb_cancel_booking: cancel_booking(booking_id)
cb_cancel_booking(u, payload) ==
    /\ Begin(u, "cb_cancel_booking")
    /\ bookings' = cancel_booking(bookings, payload)
    /\ Done
    /\ UNCHANGED <<call, rooms, fsm_state, fsm_data, passed, audit>>

\* cb_toggle_room of the company's administrator: toggle_room_active(room_id)
cb_toggle_room(room_id) ==
    /\ events < MaxEvents
    /\ events' = events + 1
    /\ rooms' = [rooms EXCEPT ![room_id].is_active = ~@]
    /\ UNCHANGED <<bookings, call, fsm_state, fsm_data, tasks, passed, audit>>

\* The session of user u once the wizard has asked for the recurrence: the
\* data left by cb_book_room (room 1), msg_title, cb_date_today,
\* cb_start_time_slot (10:00 for user 1, 10:30 for user 2) and
\* cb_duration_slot (60 minutes) on an empty table of bookings.
StartedData(u) ==
    LET start_time == IF u = 1 THEN <<10, 0>> ELSE <<10, 30>>
        end_time == IF u = 1 THEN <<11, 0>> ELSE <<11, 30>>
    IN  [room_id |-> 1, room_name |-> RoomsTable[1].name, title |-> <<"T">>,
         booking_date |-> IsoFormat(Today), start_time |-> start_time,
         start_dt |-> IsoFormat(Today) \o start_time,
         end_dt |-> IsoFormat(Today) \o end_time]

\* Every user is at rest or has come as far as the recurrence question, with
\* the early check of _apply_duration behind them; no booking is stored and
\* no handler is running.
Init ==
    /\ bookings = <<>>
    /\ call = IdleCall
    /\ rooms = RoomsTable
    /\ \E started \in SUBSET Users :
        /\ fsm_state = [u \in Users |-> IF u \in started THEN "choosing_recurrence"
                                          ELSE NoState]
        /\ fsm_data = [u \in Users |-> IF u \in started THEN StartedData(u) ELSE EmptyData]
        /\ passed = [u \in Users |->
                        IF u \in started
                        THEN Recorded({}, Candidate(StartedData(u)), <<>>) ELSE {}]
    /\ tasks = [u \in Users |-> <<>>]
    /\ audit = <<>>
    /\ events = 0

\* the booking wizard: a room is chosen, the booking is described, checked
\* and confirmed
Booking(u) ==
    \/ \E room_id \in Payloads("cb_book_room") : cb_book_room(u, room_id)
    \/ \E text \in Payloads("msg_title") : msg_title(u, text)
    \/ cb_date_today(u)
    \/ cb_date_tomorrow(u)
    \/ \E text \in Payloads("msg_date") : msg_date(u, text)
    \/ \E hhmm \in Payloads("cb_start_time_slot") : cb_start_time_slot(u, hhmm)
    \/ \E text \in Payloads("msg_start_time") : msg_start_time(u, text)
    \/ \E minutes \in Payloads("cb_duration_slot") : cb_duration_slot(u, minutes)
    \/ \E text \in Payloads("msg_duration_manual") : msg_duration_manual(u, text)
    \/ cb_rec_none(u)
    \/ cb_rec_daily(u)
    \/ cb_rec_weekly(u)
    \/ cb_rec_monthly(u)
    \/ \E day \in Payloads("cb_weekday_toggle") : cb_weekday_toggle(u, day)
    \/ cb_weekday_confirm(u)
    \/ \E text \in Payloads("msg_monthly_days") : msg_monthly_days(u, text)
    \/ cb_until_1year(u)
    \/ \E text \in Payloads("msg_rec_until") : msg_rec_until(u, text)
    \/ cb_booking_confirm(u)
    \/ \E step \in Payloads("cb_booking_back") : cb_booking_back(u, step)
    \/ cb_cancel_booking_flow(u)
    \/ cb_main_menu(u)
    \/ \E booking_id \in Payloads("cb_cancel_booking") : cb_cancel_booking(u, booking_id)

\* a suspended handler of the booking wizard resumes
BookingResumes(u, k) ==
    \/ start_booking_update_data(u, k)
    \/ start_booking_set_state(u, k)
    \/ apply_duration_checked(u, k)
    \/ check_and_confirm_checked(u, k)
    \/ booking_confirm_saved(u, k)
    \/ set_state_after_reply(u, k)
    \/ clear_after_reply(u, k)

\* the find-free-room flow
Finding(u) ==
    \/ cb_find_free_room(u)
    \/ \E text \in Payloads("msg_find_date") : msg_find_date(u, text)
    \/ \E text \in Payloads("msg_find_time") : msg_find_time(u, text)
    \/ \E room_id \in Payloads("cb_book_free_room") : cb_book_free_room(u, room_id)

\* a suspended handler of the find-free-room flow resumes
FindingResumes(u, k) ==
    \/ book_free_room_prefill(u, k)
    \/ clear_after_reply(u, k)

Next ==
    \/ \E u \in Users : Booking(u)
    \/ \E u \in Users, k \in 1 .. MaxTasks : BookingResumes(u, k)
    \/ \E room_id \in Payloads("cb_toggle_room") : cb_toggle_room(room_id)

Spec == Init /\ [][Next]_vars

\* The find-free-room flow from rest, whichever rooms the administrator has
\* left active.
InitFind ==
    /\ bookings = <<>>
    /\ call = IdleCall
    /\ rooms \in { [r \in Rooms |-> [RoomsTable[r] EXCEPT !.is_active = r \in active]]
                    : active \in SUBSET Rooms }
    /\ fsm_state = [u \in Users |-> NoState]
    /\ fsm_data = [u \in Users |-> EmptyData]
    /\ passed = [u \in Users |-> {}]
    /\ tasks = [u \in Users |-> <<>>]
    /\ audit = <<>>
    /\ events = 0

NextFind ==
    \/ \E u \in Users : Finding(u)
    \/ \E u \in Users, k \in 1 .. MaxTasks : FindingResumes(u, k)
    \/ \E u \in Users : \E text \in Payloads("msg_title") : msg_title(u, text)
    \/ \E u \in Users, k \in 1 .. MaxTasks :
        \/ start_booking_update_data(u, k)
        \/ start_booking_set_state(u, k)
        \/ set_state_after_reply(u, k)

SpecFind == InitFind /\ [][NextFind]_vars

----------------------------------------------------------------------------
(* Properties of the booking wizard (Spec)                                 *)

\* C2: check-then-act race.  The conflict check itself is sound: two live
\* definitions of one room overlap only if the later one's check ran before
\* the earlier one was inserted.  Nothing between that check and the insert
\* looks at the table again, so two sessions whose checks both came back empty
\* before either insert end up double-booking the room.
C2_DoubleBookingOnlyByRace ==
    \A i, j \in 1 .. Len(bookings) :
        (i < j /\ DoubleBooked(i, j) /\ audit[j].checked) => audit[j].seen < i

\* two users' definitions overlap in one room; both were checked, and both
\* checks came back empty before the first of the two rows was inserted
C2_Witness ==
    \E i, j \in 1 .. Len(bookings) :
        /\ i < j
        /\ DoubleBooked(i, j)
        /\ audit[i].user # audit[j].user
        /\ audit[i].checked /\ audit[i].seen < i
        /\ audit[j].checked /\ audit[j].seen < i

\* C3: every definition the wizard inserts was, earlier in the same session,
\* the candidate of a conflict check that returned empty, with the same room,
\* start, end, recurrence type, recurrence days and until.
C3_InsertedWasChecked ==
    \A i \in 1 .. Len(audit) : audit[i].checked

----------------------------------------------------------------------------
(* check_conflicts both ways: a definition X checked against a room that   *)
(* holds only Y, and Y checked against a room that holds only X.           *)

SymSlots == { SlotA, SlotB, SlotC, SlotE, SlotF }

SymDefinitions ==
    { [start_dt |-> s[1], end_dt |-> s[2],
       recurrence_type |-> rec.recurrence_type,
       recurrence_days |-> rec.recurrence_days,
       recurrence_until |-> rec.recurrence_until]
      : s \in SymSlots, rec \in CheckRecurrences }

\* table bookings holding the definition d alone, live, in room 1
Stored(d) ==
    WithIds(<<[room_id |-> 1, user_id |-> 1, company_id |-> 1, title |-> "T",
               start_dt |-> d.start_dt, end_dt |-> d.end_dt,
               recurrence_type |-> d.recurrence_type,
               recurrence_days |-> d.recurrence_days,
               recurrence_until |-> d.recurrence_until,
               is_cancelled |-> FALSE]>>)

InitSym ==
    /\ bookings = <<>>
    /\ call \in { [op |-> "symmetry", pc |-> "ready", x |-> x, y |-> y,
                   xy |-> <<>>, yx |-> <<>>]
                  : x \in SymDefinitions, y \in SymDefinitions }
    /\ WizardIdle

\* check_conflicts(x) with y stored, and check_conflicts(y) with x stored
SymCall ==
    /\ call.op = "symmetry" /\ call.pc = "ready"
    /\ call' = [call EXCEPT
                    !.pc = "done",
                    !.xy = check_conflicts(Stored(call.y), 1, call.x.start_dt,
                                           call.x.end_dt, call.x.recurrence_type,
                                           call.x.recurrence_days,
                                           call.x.recurrence_until, 0),
                    !.yx = check_conflicts(Stored(call.x), 1, call.y.start_dt,
                                           call.y.end_dt, call.y.recurrence_type,
                                           call.y.recurrence_days,
                                           call.y.recurrence_until, 0)]
    /\ UNCHANGED <<bookings, wizard>>

NextSym == SymCall

SpecSym == InitSym /\ [][NextSym]_vars

SymChecked == call.op = "symmetry" /\ call.pc = "done"

\* the dates of the check window of candidate c
WindowDates(c) ==
    LET anchor == DateOf(_parse_dt(c.start_dt))
    IN  anchor .. (IF c.recurrence_until # None THEN _parse_date(c.recurrence_until)
                   ELSE anchor + 366)

\* the check window of candidate c contains every occurrence of definition d
WindowHolds(c, d) == \A o \in AllOccurrences(d) : DateOf(o[1]) \in WindowDates(c)

BothWindowsHoldAll ==
    /\ WindowHolds(call.x, call.x) /\ WindowHolds(call.x, call.y)
    /\ WindowHolds(call.y, call.x) /\ WindowHolds(call.y, call.y)

\* C11: the overlap test gives the same answer with its two occurrences
\* swapped; and checking X against stored Y reports a conflict iff checking Y
\* against stored X does, when each check window contains all occurrences of
\* both definitions.
C11_OverlapSymmetry ==
    SymChecked =>
        /\ \A a \in AllOccurrences(call.x), b \in AllOccurrences(call.y) :
              Overlaps(a[1], a[2], b[1], b[2]) <=> Overlaps(b[1], b[2], a[1], a[2])
        /\ BothWindowsHoldAll => (call.xy # <<>> <=> call.yx # <<>>)

\* a daily definition and a single slot that overlaps its first occurrence
C11_Witness ==
    /\ SymChecked /\ BothWindowsHoldAll
    /\ call.x.recurrence_type = "daily" /\ call.y.recurrence_type = "None"
    /\ call.x.start_dt # call.y.start_dt
    /\ call.xy # <<>> /\ call.yx # <<>>

----------------------------------------------------------------------------
(* More properties of check_conflicts (SpecCheck)                          *)

\* the candidate occurrences that overlap the existing occurrence e
OverlappingCandidates(e) == { p \in CandidateOccurrences : p[1] < e[2] /\ e[1] < p[2] }

\* the positions of the result that carry definition i and its occurrence e
RecordsOf(i, e) ==
    { k \in 1 .. Len(call.result) :
        /\ call.result[k].booking_id = bookings[i].id
        /\ call.result[k].start_dt = e[1]
        /\ call.result[k].end_dt = e[2] }

OnlyStoredIs(slot) ==
    /\ Len(bookings) = 1 /\ Considered(1)
    /\ bookings[1].recurrence_type = "None"
    /\ bookings[1].start_dt = slot[1] /\ bookings[1].end_dt = slot[2]

CandidateIs(slot) ==
    /\ call.recurrence_type = "None"
    /\ call.start_dt = slot[1] /\ call.end_dt = slot[2]

\* C12: check returns one record for each overlapping pair (candidate
\* occurrence p, occurrence e of a live, non-excluded definition of the room),
\* carrying that definition's id and e's start and end, and no other record;
\* with 10:00-11:00 stored, the candidate 10:30-11:30 yields exactly the record
\* of 10:00-11:00 and the candidate 11:00-12:00 yields nothing.
C12_OneRecordPerOverlappingPair ==
    Checked =>
        /\ \A i \in 1 .. Len(bookings) :
              Considered(i) =>
                  \A e \in ExistingOccurrences(i) :
                      Cardinality(RecordsOf(i, e)) = Cardinality(OverlappingCandidates(e))
        /\ \A k \in 1 .. Len(call.result) :
              \E i \in 1 .. Len(bookings) :
                  /\ Considered(i)
                  /\ \E e \in ExistingOccurrences(i) :
                        k \in RecordsOf(i, e) /\ OverlappingCandidates(e) # {}
        /\ (OnlyStoredIs(SlotA) /\ CandidateIs(SlotB)) =>
              /\ Len(call.result) = 1
              /\ call.result[1].booking_id = bookings[1].id
              /\ call.result[1].start_dt = _parse_dt(SlotA[1])
              /\ call.result[1].end_dt = _parse_dt(SlotA[2])
        /\ (OnlyStoredIs(SlotA) /\ CandidateIs(SlotC)) => call.result = <<>>

\* two occurrences of a daily candidate of 24 hours overlap one stored
\* occurrence: two records for it
C12_Witness ==
    /\ Checked
    /\ \E i \in 1 .. Len(bookings) :
          /\ Considered(i)
          /\ \E e \in ExistingOccurrences(i) : Cardinality(RecordsOf(i, e)) = 2

\* C13: the records are ordered by the existing occurrence's start ascending,
\* ties broken by the existing definition's id ascending.
C13_OrderedByStartThenId ==
    Checked =>
        \A k \in 1 .. Len(call.result) - 1 :
            \/ call.result[k].start_dt < call.result[k + 1].start_dt
            \/ /\ call.result[k].start_dt = call.result[k + 1].start_dt
               /\ call.result[k].booking_id <= call.result[k + 1].booking_id

\* the same call without exclude_booking_id
ResultWithoutExclusion ==
    check_conflicts(bookings, call.room_id, call.start_dt, call.end_dt,
                    call.recurrence_type, call.recurrence_days, call.recurrence_until, 0)

NotOfExcluded(record) == record.booking_id # call.exclude_booking_id

\* C17: with exclude_id given, no record carries the id exclude_id, and the
\* records of all other definitions are those of the call without exclude_id,
\* in the same order.
C17_ExcludedDefinitionSkipped ==
    (Checked /\ call.exclude_booking_id # 0) =>
        /\ \A k \in 1 .. Len(call.result) : NotOfExcluded(call.result[k])
        /\ call.result = SelectSeq(ResultWithoutExclusion, NotOfExcluded)

\* the excluded definition overlaps the candidate and another one does too
C17_Witness ==
    /\ Checked /\ call.exclude_booking_id = 1
    /\ Len(bookings) = 2
    /\ \E k \in 1 .. Len(ResultWithoutExclusion) :
          ResultWithoutExclusion[k].booking_id = 1
    /\ call.result # <<>>
    /\ Len(call.result) < Len(ResultWithoutExclusion)

----------------------------------------------------------------------------
(* check_conflicts at the edges of its window: stored slots that begin     *)
(* before the window, after it, and 366 and 367 days after the candidate's *)
(* anchor; candidates without an until date and without any occurrence.    *)

\* 2024-01-04, and the days 366 and 367 after 2024-01-01
SlotG == <<<<2024, 1, 4, 10, 0>>, <<2024, 1, 4, 11, 0>>>>
SlotY == <<<<2025, 1, 1, 10, 0>>, <<2025, 1, 1, 11, 0>>>>
SlotZ == <<<<2025, 1, 2, 10, 0>>, <<2025, 1, 2, 11, 0>>>>

WindowRowSlots == { SlotA, SlotE, SlotG, SlotY, SlotZ }

WindowRows ==
    { [room_id |-> 1, user_id |-> 1, company_id |-> 1, title |-> "T",
       start_dt |-> s[1], end_dt |-> s[2],
       recurrence_type |-> rec.recurrence_type,
       recurrence_days |-> rec.recurrence_days,
       recurrence_until |-> rec.recurrence_until,
       is_cancelled |-> FALSE]
      : s \in WindowRowSlots, rec \in CheckRecurrences }

WindowStores ==
    UNION { { WithIds(rows) : rows \in [1 .. n -> WindowRows] } : n \in 0 .. MaxExisting }

\* daily without an until date; an until date before the anchor; a weekly
\* definition whose weekday does not come before its until date
WindowRecurrences ==
    CheckRecurrences
    \cup { [recurrence_type |-> "daily", recurrence_days |-> None, recurrence_until |-> None],
           [recurrence_type |-> "daily", recurrence_days |-> None,
            recurrence_until |-> <<2023, 12, 31>>],
           [recurrence_type |-> "weekly", recurrence_days |-> <<6>>,
            recurrence_until |-> <<2024, 1, 3>>] }

WindowCandidateSlots == { SlotA, SlotE, SlotF }

InitWindow ==
    /\ bookings \in WindowStores
    /\ call \in { [op |-> "check", pc |-> "ready", room_id |-> 1,
                   start_dt |-> s[1], end_dt |-> s[2],
                   recurrence_type |-> rec.recurrence_type,
                   recurrence_days |-> rec.recurrence_days,
                   recurrence_until |-> rec.recurrence_until,
                   exclude_booking_id |-> 0, result |-> <<>>]
                  : s \in WindowCandidateSlots, rec \in WindowRecurrences }
    /\ WizardIdle

SpecWindow == InitWindow /\ [][NextCheck]_vars

\* every occurrence of a definition from its anchor date on, to its until date
\* or, without one, for 400 days
EveryOccurrence(row) ==
    LET anchor == DateOf(_parse_dt(row.start_dt))
    IN  SeqToSet(_expand_occurrences(row, anchor, anchor + 400))

\* the occurrences of a definition that begin on a date of the candidate's window
OccurrencesInWindow(row) ==
    { o \in EveryOccurrence(row) : DateOf(o[1]) \in WindowDates(CandidateRow) }

ReportedOccurrences ==
    { <<call.result[k].booking_id, call.result[k].start_dt, call.result[k].end_dt>>
      : k \in 1 .. Len(call.result) }

ConflictsInWindow ==
    UNION { { <<bookings[i].id, e[1], e[2]>> :
                e \in { o \in OccurrencesInWindow(bookings[i]) :
                          \E p \in OccurrencesInWindow(CandidateRow) :
                              p[1] < o[2] /\ o[1] < p[2] } }
            : i \in { j \in 1 .. Len(bookings) : Considered(j) } }

\* C14: the check window is [candidate anchor date, candidate until] when the
\* candidate has an until date and [anchor date, anchor date + 366 days]
\* otherwise; what check reports are the overlaps between the candidate's and
\* the existing definitions' occurrences that begin inside this one window.
C14_CheckWindow ==
    Checked => ReportedOccurrences = ConflictsInWindow

\* a candidate without until date still meets the slot 366 days after its
\* anchor and no longer the slot 367 days after it
C14_Witness ==
    /\ Checked
    /\ call.recurrence_type = "daily" /\ call.recurrence_until = None
    /\ call.start_dt = SlotA[1]
    /\ Len(bookings) = 2
    /\ bookings[1].start_dt = SlotY[1] /\ bookings[1].recurrence_type = "None"
    /\ bookings[2].start_dt = SlotZ[1] /\ bookings[2].recurrence_type = "None"
    /\ Len(call.result) = 1
    /\ call.result[1].booking_id = 1

\* the candidate has no occurrence in its check window
CandidateHasNoOccurrence == OccurrencesInWindow(CandidateRow) = {}

UntilBeforeAnchor ==
    /\ call.recurrence_until # None
    /\ _parse_date(call.recurrence_until) < DateOf(_parse_dt(call.start_dt))

\* C16: a candidate with no occurrence in the check window, as when its until
\* date is earlier than its anchor date, gets an empty result, whatever the
\* room holds.
C16_NoOccurrenceNoConflict ==
    Checked =>
        /\ UntilBeforeAnchor => CandidateHasNoOccurrence
        /\ CandidateHasNoOccurrence => call.result = <<>>

\* until lies before the anchor, and the room holds a live slot at the
\* anchor's own time
C16_Witness ==
    /\ Checked /\ UntilBeforeAnchor
    /\ Len(bookings) = 2
    /\ \A i \in 1 .. 2 :
          /\ Considered(i)
          /\ bookings[i].start_dt = call.start_dt /\ bookings[i].end_dt = call.end_dt
    /\ call.result = <<>>

----------------------------------------------------------------------------
(* The windows of the checks the wizard submits (Spec)                     *)

\* C15: for every candidate the wizard submits, the check window reaches no
\* further than 366 days beyond the candidate's anchor date.
C15_WindowWithinLookahead ==
    \A u \in Users : \A p \in passed[u] :
        \A d \in WindowDates(p.candidate) :
            d <= DateOf(_parse_dt(p.candidate.start_dt)) + 366

----------------------------------------------------------------------------
(* The read operations of src/db/queries/bookings.py called again and      *)
(* again on a store in which bookings are cancelled meanwhile.             *)

\* SELECT ... WHERE b.room_id = ? AND b.is_cancelled = 0 ORDER BY b.start_dt;
\* rows with the same start_dt come in table order
get_room_bookings_raw(table, room_id) ==
    LET Selected(row) == RoomRowSelected(row, room_id)
        rows == SelectSeq(table, Selected)
        keyed == [i \in 1 .. Len(rows) |->
                    [key |-> _parse_dt(rows[i].start_dt), row |-> rows[i]]]
        sorted == SortByKey(keyed)
    IN  [i \in 1 .. Len(sorted) |-> sorted[i].row]

\* for b in raw: for occ_start, occ_end in _expand_occurrences(...): append
RECURSIVE ScheduleLoop(_, _, _, _)
ScheduleLoop(raw, i, window_start, window_end) ==
    IF i > Len(raw) THEN <<>>
    ELSE LET b == raw[i]
             occs == _expand_occurrences(b, window_start, window_end)
         IN  [k \in 1 .. Len(occs) |->
                [booking_id |-> b.id, title |-> b.title,
                 start_dt |-> occs[k][1], end_dt |-> occs[k][2],
                 username |-> b.user_id, recurrence_type |-> b.recurrence_type]]
             \o ScheduleLoop(raw, i + 1, window_start, window_end)

\* mutant: the schedule without result.sort
get_room_schedule_unsorted(table, room_id, window_start, window_end) ==
    ScheduleLoop(get_room_bookings_raw(table, room_id), 1, window_start, window_end)

\* get_room_schedule: the occurrences of the room's live definitions in the
\* window; result.sort(key=start_dt) is stable
get_room_schedule(table, room_id, window_start, window_end) ==
    LET result == ScheduleLoop(get_room_bookings_raw(table, room_id), 1,
                               window_start, window_end)
        keyed == [i \in 1 .. Len(result) |-> [key |-> result[i].start_dt, item |-> result[i]]]
        sorted == SortByKey(keyed)
    IN  [i \in 1 .. Len(sorted) |-> sorted[i].item]

\* calls of one operation in a behaviour
MaxCalls == 2

\* live definitions 10:00-11:00 and 11:00-12:00, both overlapped by 10:30-11:30
EngineRows ==
    { r \in CheckRows : ~r.is_cancelled /\ <<r.start_dt, r.end_dt>> \in { SlotA, SlotC } }

EngineStores ==
    UNION { { WithIds(rows) : rows \in [1 .. n -> EngineRows] } : n \in 0 .. MaxExisting }

\* the operation and its arguments
EngineCalls ==
    { [op |-> "check",
       arg |-> [room_id |-> 1, start_dt |-> SlotB[1], end_dt |-> SlotB[2],
                recurrence_type |-> rec.recurrence_type,
                recurrence_days |-> rec.recurrence_days,
                recurrence_until |-> rec.recurrence_until]] : rec \in CheckRecurrences }
    \cup { [op |-> "expand",
            arg |-> [booking |-> [start_dt |-> SlotB[1], end_dt |-> SlotB[2],
                                  recurrence_type |-> rec.recurrence_type,
                                  recurrence_days |-> rec.recurrence_days,
                                  recurrence_until |-> rec.recurrence_until],
                     window_start |-> Jan1, window_end |-> Jan1 + 1]]
           : rec \in CheckRecurrences }
    \cup { [op |-> "find", arg |-> [start_dt |-> s[1], end_dt |-> s[2]]]
           : s \in { SlotB, SlotF } }
    \cup { [op |-> "schedule",
            arg |-> [room_id |-> r, window_start |-> Jan1, window_end |-> Jan1 + 1]]
           : r \in Rooms }

\* Room 2 active or not; user 1 in the middle of the wizard, user 2 at rest.
InitEngine ==
    /\ bookings \in EngineStores
    /\ \E c \in EngineCalls :
          call = [op |-> c.op, pc |-> "ready", arg |-> c.arg, calls |-> 0,
                  result |-> <<>>, table |-> bookings,
                  previous |-> <<>>, previous_table |-> bookings]
    /\ rooms \in { RoomsTable, [RoomsTable EXCEPT ![2].is_active = FALSE] }
    /\ fsm_state = [u \in Users |-> IF u = 1 THEN "choosing_recurrence" ELSE NoState]
    /\ fsm_data = [u \in Users |-> IF u = 1 THEN StartedData(u) ELSE EmptyData]
    /\ tasks = [u \in Users |-> <<>>]
    /\ passed = [u \in Users |-> {}]
    /\ audit = <<>>
    /\ events = 0

\* the operation returns result; the harness keeps the previous result and
\* the table each of the two was computed from
Returned(op, result) ==
    /\ call.op = op
    /\ call.calls < MaxCalls
    /\ call' = [call EXCEPT
                    !.pc = "done", !.calls = @ + 1,
                    !.previous = call.result, !.previous_table = call.table,
                    !.result = result, !.table = bookings]

\* mutant: the check cancels the definitions it reports
EngineCheck_cancels_reported ==
    LET result == check_conflicts(bookings, call.arg.room_id, call.arg.start_dt,
                                  call.arg.end_dt, call.arg.recurrence_type,
                                  call.arg.recurrence_days, call.arg.recurrence_until, 0)
    IN  /\ Returned("check", result)
        /\ bookings' = [i \in 1 .. Len(bookings) |->
                           IF \E k \in 1 .. Len(result) : result[k].booking_id = i
                           THEN [bookings[i] EXCEPT !.is_cancelled = TRUE]
                           ELSE bookings[i]]
        /\ UNCHANGED wizard

EngineCheck ==
    /\ Returned("check",
                check_conflicts(bookings, call.arg.room_id, call.arg.start_dt,
                                call.arg.end_dt, call.arg.recurrence_type,
                                call.arg.recurrence_days, call.arg.recurrence_until, 0))
    /\ UNCHANGED <<bookings, wizard>>

EngineExpand ==
    /\ Returned("expand",
                _expand_occurrences(call.arg.booking, call.arg.window_start,
                                    call.arg.window_end))
    /\ UNCHANGED <<bookings, wizard>>

EngineFind ==
    /\ Returned("find",
                find_free_rooms(bookings, ActiveCompany, call.arg.start_dt,
                                call.arg.end_dt))
    /\ UNCHANGED <<bookings, wizard>>

EngineSchedule ==
    /\ Returned("schedule",
                get_room_schedule(bookings, call.arg.room_id, call.arg.window_start,
                                  call.arg.window_end))
    /\ UNCHANGED <<bookings, wizard>>

NextEngine ==
    \/ EngineCheck
    \/ EngineExpand
    \/ EngineFind
    \/ EngineSchedule
    \/ \E booking_id \in 1 .. MaxExisting : CancelStored(booking_id)

SpecEngine == InitEngine /\ [][NextEngine]_vars

----------------------------------------------------------------------------
(* Properties of the read operations (SpecEngine)                          *)

EngineDone(op) == call.op = op /\ call.pc = "done"

\* the definition with this id is in the table and not cancelled
LiveIn(table, booking_id) ==
    \E i \in 1 .. Len(table) : table[i].id = booking_id /\ ~table[i].is_cancelled

\* the definition has an occurrence that overlaps the slot of the find call
OverlapsFindSlot(row) ==
    \E o \in AllOccurrences(row) :
        o[1] < _parse_dt(call.arg.end_dt) /\ _parse_dt(call.arg.start_dt) < o[2]

\* every row of the earlier table is still there, changed at most by being
\* cancelled
Retained(earlier, later) ==
    /\ Len(later) = Len(earlier)
    /\ \A i \in 1 .. Len(earlier) :
          \/ later[i] = earlier[i]
          \/ later[i] = [earlier[i] EXCEPT !.is_cancelled = TRUE]

\* C18: check returns no record of a cancelled definition; find_free_rooms
\* reports an active room free when every definition of it that overlaps the
\* slot is cancelled; get_room_schedule lists no occurrence of a cancelled
\* definition; and the cancelled rows stay in the table.
C18_CancelledExcluded ==
    /\ EngineDone("check") =>
          \A k \in 1 .. Len(call.result) : LiveIn(call.table, call.result[k].booking_id)
    /\ EngineDone("schedule") =>
          \A k \in 1 .. Len(call.result) : LiveIn(call.table, call.result[k].booking_id)
    /\ EngineDone("find") =>
          \A r \in Rooms :
              ( /\ rooms[r].is_active
                /\ \A i \in 1 .. Len(call.table) :
                      (call.table[i].room_id = r /\ OverlapsFindSlot(call.table[i]))
                          => call.table[i].is_cancelled )
              => \E k \in 1 .. Len(call.result) : call.result[k].id = r
    /\ Retained(call.previous_table, call.table) /\ Retained(call.table, bookings)

\* room 1 is reported free although two cancelled definitions of it overlap
\* the slot, and both are still in the table
C18_Witness ==
    /\ EngineDone("find")
    /\ \E k \in 1 .. Len(call.result) : call.result[k].id = 1
    /\ Len(call.table) = 2
    /\ \A i \in 1 .. 2 :
          /\ call.table[i].room_id = 1 /\ call.table[i].is_cancelled
          /\ OverlapsFindSlot(call.table[i])
    /\ \E i \in 1 .. 2 : ~call.previous_table[i].is_cancelled

\* C19: a step in which check, expand, find_free_rooms or get_room_schedule
\* returns leaves the stored definitions, the rooms and the sessions of the
\* wizard as they were, however often the operation is called and whatever
\* cancellations happen between the calls.
C19_PureReads ==
    [][ call'.calls # call.calls =>
            /\ bookings' = bookings
            /\ rooms' = rooms
            /\ fsm_state' = fsm_state /\ fsm_data' = fsm_data ]_vars

\* a second check has returned conflicts on a table in which a booking was
\* cancelled after the first, beside an open session of the wizard
C19_Witness ==
    /\ EngineDone("check") /\ call.calls = 2
    /\ call.result # <<>>
    /\ call.table # call.previous_table
    /\ call.table = bookings
    /\ fsm_data[1] = StartedData(1)

----------------------------------------------------------------------------
(* find_free_rooms on three rooms whose ids are not in the order of their  *)
(* names, of two companies, some inactive, some booked.                    *)

FreeRoomIds == 1 .. 3

\* id 1 is "C", id 2 is "A", id 3 is "B", or the names follow the ids
FreeRoomNames == { <<"C", "A", "B">>, <<"A", "B", "C">> }

FreeRoomsTables ==
    { [r \in FreeRoomIds |->
          [id |-> r, company_id |-> IF r \in other THEN 2 ELSE 1,
           name |-> names[r], is_active |-> r \notin inactive]]
      : names \in FreeRoomNames,
        other \in { {}, {1}, {3} }, inactive \in { {}, {2}, {1, 3} } }

\* Tuesday 2024-01-02 14:00-15:00 and the hour after it
SlotT == <<<<2024, 1, 2, 14, 0>>, <<2024, 1, 2, 15, 0>>>>
SlotU == <<<<2024, 1, 2, 15, 0>>, <<2024, 1, 2, 16, 0>>>>

\* stored definitions: a booking of the slot, one of the hour after it, and a
\* daily one from Monday at 14:30, live or cancelled, in any of the rooms
FreeRows ==
    { [room_id |-> r, user_id |-> 1, company_id |-> 1, title |-> "T",
       start_dt |-> d.slot[1], end_dt |-> d.slot[2],
       recurrence_type |-> d.rec.recurrence_type,
       recurrence_days |-> d.rec.recurrence_days,
       recurrence_until |-> d.rec.recurrence_until,
       is_cancelled |-> c]
      : r \in FreeRoomIds, c \in BOOLEAN,
        d \in { [slot |-> SlotT,
                 rec |-> [recurrence_type |-> "None", recurrence_days |-> None,
                          recurrence_until |-> None]],
                [slot |-> SlotU,
                 rec |-> [recurrence_type |-> "None", recurrence_days |-> None,
                          recurrence_until |-> None]],
                [slot |-> <<<<2024, 1, 1, 14, 30>>, <<2024, 1, 1, 15, 30>>>>,
                 rec |-> [recurrence_type |-> "daily", recurrence_days |-> None,
                          recurrence_until |-> <<2024, 1, 3>>]] } }

FreeStores ==
    UNION { { WithIds(rows) : rows \in [1 .. n -> FreeRows] } : n \in 0 .. MaxExisting }

InitFree ==
    /\ bookings \in FreeStores
    /\ rooms \in FreeRoomsTables
    /\ call = [op |-> "find", pc |-> "ready", company_id |-> ActiveCompany,
               start_dt |-> SlotT[1], end_dt |-> SlotT[2], result |-> <<>>]
    /\ fsm_state = [u \in Users |-> NoState]
    /\ fsm_data = [u \in Users |-> EmptyData]
    /\ tasks = [u \in Users |-> <<>>]
    /\ passed = [u \in Users |-> {}]
    /\ audit = <<>>
    /\ events = 0

FreeCall ==
    /\ call.op = "find" /\ call.pc = "ready"
    /\ call' = [call EXCEPT
                    !.pc = "done",
                    !.result = find_free_rooms(bookings, call.company_id,
                                               call.start_dt, call.end_dt)]
    /\ UNCHANGED <<bookings, wizard>>

NextFree == FreeCall

SpecFree == InitFree /\ [][NextFree]_vars

----------------------------------------------------------------------------
(* Properties of find_free_rooms (SpecFree)                                *)

FreeDone == call.op = "find" /\ call.pc = "done"

\* the conflict check of the non-recurring candidate in room r is empty
CheckIsEmpty(r) ==
    check_conflicts(bookings, r, call.start_dt, call.end_dt, "None", None, None, 0) = <<>>

ResultIds == { call.result[k].id : k \in 1 .. Len(call.result) }

\* the room named name is active, of the company, and booked or not
RoomIs(name, booked) ==
    \E r \in DOMAIN rooms :
        /\ rooms[r].name = name /\ rooms[r].is_active
        /\ rooms[r].company_id = call.company_id
        /\ CheckIsEmpty(r) = ~booked

\* C21: find_free_rooms returns exactly the active rooms of the company whose
\* conflict check of the non-recurring candidate is empty, each once, in
\* ascending order of name.
C21_FreeRoomsExactAndOrdered ==
    FreeDone =>
        /\ ResultIds = { r \in DOMAIN rooms :
                            /\ rooms[r].company_id = call.company_id
                            /\ rooms[r].is_active
                            /\ CheckIsEmpty(r) }
        /\ \A k \in 1 .. Len(call.result) : call.result[k] = rooms[call.result[k].id]
        /\ \A j, k \in 1 .. Len(call.result) :
              j < k => NameRank(call.result[j].name) < NameRank(call.result[k].name)

\* rooms A, B, C with ids 2, 3, 1, only B booked in the slot: the result is
\* [A, C]
C21_Witness ==
    /\ FreeDone
    /\ rooms[1].name = "C"
    /\ RoomIs("A", FALSE) /\ RoomIs("B", TRUE) /\ RoomIs("C", FALSE)
    /\ Len(call.result) = 2
    /\ call.result[1].name = "A" /\ call.result[2].name = "C"
----------------------------------------------------------------------------
(* get_room_schedule on stores whose definitions are anchored on different *)
(* days, so that a later row of the table can have the earlier anchor.     *)

\* Monday 10:00, Monday 10:30 and Tuesday 10:00: a daily definition anchored
\* on Monday has an occurrence at the start of one anchored on Tuesday
ScheduleSlots == { SlotA, SlotB, SlotF }

\* one-off definitions are user 1's and titled "T", daily ones user 2's and
\* titled "S"
ScheduleRows ==
    { [room_id |-> r, user_id |-> IF rec.recurrence_type = "None" THEN 1 ELSE 2,
       company_id |-> 1,
       title |-> IF rec.recurrence_type = "None" THEN "T" ELSE "S",
       start_dt |-> s[1], end_dt |-> s[2],
       recurrence_type |-> rec.recurrence_type,
       recurrence_days |-> rec.recurrence_days,
       recurrence_until |-> rec.recurrence_until,
       is_cancelled |-> c]
      : r \in Rooms, s \in ScheduleSlots, rec \in CheckRecurrences, c \in BOOLEAN }

ScheduleStores ==
    UNION { { WithIds(rows) : rows \in [1 .. n -> ScheduleRows] } : n \in 0 .. MaxExisting }

\* the windows: Monday to Tuesday, Tuesday to Wednesday, Tuesday to Monday
ScheduleWindows == { <<Jan1, Jan1 + 1>>, <<Jan1 + 1, Jan1 + 2>>, <<Jan1 + 1, Jan1>> }

InitSchedule ==
    /\ bookings \in ScheduleStores
    /\ call \in { [op |-> "schedule", pc |-> "ready", room_id |-> 1,
                   window_start |-> w[1], window_end |-> w[2], result |-> <<>>]
                  : w \in ScheduleWindows }
    /\ WizardIdle

ScheduleCall ==
    /\ call.op = "schedule" /\ call.pc = "ready"
    /\ call' = [call EXCEPT
                    !.pc = "done",
                    !.result = get_room_schedule(bookings, call.room_id,
                                                 call.window_start, call.window_end)]
    /\ UNCHANGED <<bookings, wizard>>

NextSchedule == ScheduleCall

SpecSchedule == InitSchedule /\ [][NextSchedule]_vars

----------------------------------------------------------------------------
(* Properties of get_room_schedule (SpecSchedule)                          *)

ScheduleDone == call.op = "schedule" /\ call.pc = "done"

\* the definition is of the room of the call and not cancelled
LiveInRoom(i) == bookings[i].room_id = call.room_id /\ ~bookings[i].is_cancelled

\* the items of the result that carry the id of definition i, as pairs
ItemsOf(i) ==
    LET OfDefinition(item) == item.booking_id = i
        items == SelectSeq(call.result, OfDefinition)
    IN  [k \in 1 .. Len(items) |-> <<items[k].start_dt, items[k].end_dt>>]

\* C22: get_room_schedule returns exactly the occurrences of the expansion of
\* every non-cancelled definition of the room against the window, each with
\* its definition's id, title, occupant and recurrence type, in ascending
\* order of occurrence start.
C22_ScheduleExactAnnotatedSorted ==
    ScheduleDone =>
        /\ \A i \in 1 .. Len(bookings) :
              ItemsOf(i) = IF LiveInRoom(i)
                           THEN _expand_occurrences(bookings[i], call.window_start,
                                                    call.window_end)
                           ELSE <<>>
        /\ \A k \in 1 .. Len(call.result) :
              LET item == call.result[k]
              IN  /\ item.booking_id \in 1 .. Len(bookings)
                  /\ item.title = bookings[item.booking_id].title
                  /\ item.username = bookings[item.booking_id].user_id
                  /\ item.recurrence_type = bookings[item.booking_id].recurrence_type
        /\ \A j, k \in 1 .. Len(call.result) :
              j < k => call.result[j].start_dt <= call.result[k].start_dt

\* a daily definition of one user stored after a one-off definition of the
\* other on the next day, both live in the room: three items, the first of
\* them an occurrence of the second row
C22_Witness ==
    /\ ScheduleDone
    /\ Len(bookings) = 2 /\ LiveInRoom(1) /\ LiveInRoom(2)
    /\ bookings[1].title # bookings[2].title
    /\ bookings[1].recurrence_type = "None" /\ bookings[2].recurrence_type = "daily"
    /\ Len(call.result) = 3
    /\ call.result[1].booking_id = 2

\* C23: occurrences of the schedule with the same start time come in
\* ascending order of definition id.
C23_TiesByDefinitionId ==
    ScheduleDone =>
        \A j, k \in 1 .. Len(call.result) :
            (j < k /\ call.result[j].start_dt = call.result[k].start_dt)
                => call.result[j].booking_id <= call.result[k].booking_id
----------------------------------------------------------------------------
(* _expand_occurrences on the inputs the wizard never stores: a window     *)
(* that ends before it starts, an until date before the anchor, a          *)
(* recurrence type outside None / daily / weekly / monthly.                *)

EdgeSlots == { SlotA, <<<<2024, 1, 1, 23, 0>>, <<2024, 1, 2, 1, 0>>>> }

\* no until date, one before the anchors, one after them
EdgeUntils == { None, <<2023, 12, 25>>, <<2024, 1, 14>> }

\* recurrence types the if/elif chain does not name
UnknownTypes == { "yearly", "" }

EdgeRecurrences ==
    { [recurrence_type |-> "None", recurrence_days |-> None, recurrence_until |-> None] }
    \cup { [recurrence_type |-> "daily", recurrence_days |-> None, recurrence_until |-> u]
           : u \in EdgeUntils }
    \cup { [recurrence_type |-> "weekly", recurrence_days |-> <<0, 2>>, recurrence_until |-> u]
           : u \in EdgeUntils }
    \cup { [recurrence_type |-> "monthly", recurrence_days |-> <<1, 15>>, recurrence_until |-> u]
           : u \in EdgeUntils }
    \cup { [recurrence_type |-> t, recurrence_days |-> None, recurrence_until |-> u]
           : t \in UnknownTypes, u \in EdgeUntils }

EdgeBookings ==
    { [start_dt |-> s[1], end_dt |-> s[2],
       recurrence_type |-> r.recurrence_type,
       recurrence_days |-> r.recurrence_days,
       recurrence_until |-> r.recurrence_until]
      : s \in EdgeSlots, r \in EdgeRecurrences }

EdgeWindowStarts == { Jan1 - 7, Jan1, Jan1 + 9 }
EdgeWindowEnds == { Jan1 - 10, Jan1 + 4, Jan1 + 13 }

InitEdge ==
    /\ bookings = <<>>
    /\ call \in { [op |-> "expand", pc |-> "ready", booking |-> b,
                   window_start |-> ws, window_end |-> we, result |-> <<>>]
                  : b \in EdgeBookings, ws \in EdgeWindowStarts,
                    we \in EdgeWindowEnds }
    /\ WizardIdle

SpecEdge == InitEdge /\ [][NextExpand]_vars

----------------------------------------------------------------------------
(* Properties of _expand_occurrences at the edges (SpecEdge)               *)

KnownRecurring == { "daily", "weekly", "monthly" }

\* C24: for a window whose start is after its end, expand returns the empty
\* list for every definition.
C24_ReversedWindowEmpty ==
    (Expanded /\ call.window_start > call.window_end) => call.result = <<>>

\* a daily definition without until, anchored on or before the window's end,
\* expanded against a window that starts after it ends: the loop runs from
\* the anchor to the window's end and appends nothing
C24_Witness ==
    /\ Expanded
    /\ call.window_start > call.window_end
    /\ call.booking.recurrence_type = "daily"
    /\ call.booking.recurrence_until = None
    /\ AnchorDate <= call.window_end
    /\ call.result = <<>>

\* C25: for a recurring definition whose until date is earlier than its anchor
\* date, expand returns the empty list for every window.
C25_UntilBeforeAnchorEmpty ==
    ( /\ Expanded
      /\ call.booking.recurrence_type \in KnownRecurring
      /\ call.booking.recurrence_until # None
      /\ _parse_date(call.booking.recurrence_until) < AnchorDate )
        => call.result = <<>>

\* a daily definition with until before the anchor, the anchor inside the
\* window
C25_Witness ==
    /\ Expanded
    /\ call.booking.recurrence_type = "daily"
    /\ call.booking.recurrence_until # None
    /\ _parse_date(call.booking.recurrence_until) < AnchorDate
    /\ InWindow(AnchorDate, call.window_start, call.window_end)
    /\ call.result = <<>>

\* C26: a definition whose recurrence type is none of None, daily, weekly,
\* monthly is expanded like one of type None: the anchor occurrence when the
\* anchor date lies in the window, nothing otherwise.
C26_UnknownTypeAsNone ==
    (Expanded /\ call.booking.recurrence_type \notin KnownRecurring \cup { "None" }) =>
        call.result = IF InWindow(AnchorDate, call.window_start, call.window_end)
                      THEN << <<AnchorStart, AnchorEnd>> >>
                      ELSE <<>>
----------------------------------------------------------------------------
(* One user's session, the find-free-room flow included, from the points   *)
(* the wizard can be at when it asks for the recurrence.  The session data *)
(* outlives a flow that is left without state.clear(): cb_find_free_room   *)
(* and _start_booking_for_room only add to it.                             *)

\* The session after cb_find_free_room, msg_find_date (Wednesday 2024-01-10),
\* msg_find_time (10:30-11:30), cb_book_free_room (room 1) and msg_title.
PrefilledData ==
    LET find_date == <<2024, 1, 10>>
        start_dt == find_date \o <<10, 30>>
        end_dt == find_date \o <<11, 30>>
    IN  [find_date |-> find_date, find_start_dt |-> start_dt, find_end_dt |-> end_dt,
         room_id |-> 1, room_name |-> RoomsTable[1].name,
         prefilled_start_dt |-> start_dt, prefilled_end_dt |-> end_dt,
         title |-> <<"T">>, start_dt |-> start_dt, end_dt |-> end_dt]

\* The same after a booking that was begun with cb_book_room, msg_title and
\* cb_date_today and left at the start time for the find-free-room flow.
LeftoverData == Updated(PrefilledData, [booking_date |-> IsoFormat(Today)])

\* where the session of user 1 begins
SessionStarts ==
    { [state |-> NoState, data |-> EmptyData, checked |-> FALSE],
      [state |-> "choosing_recurrence", data |-> StartedData(1), checked |-> TRUE],
      [state |-> "choosing_recurrence", data |-> PrefilledData, checked |-> FALSE],
      [state |-> "choosing_recurrence", data |-> LeftoverData, checked |-> FALSE] }

\* a definition of user 2 in room 1, Tuesday 2024-01-02 10:00-11:00
StoredByOther ==
    save_booking(<<>>, 1, 2, ActiveCompany, <<"T">>, SlotF[1], SlotF[2], "None", None, None)

InitSession ==
    /\ bookings \in { <<>>, StoredByOther }
    /\ call = IdleCall
    /\ rooms \in { RoomsTable, [RoomsTable EXCEPT ![2].is_active = FALSE] }
    /\ \E s \in SessionStarts :
        /\ fsm_state = [u \in Users |-> IF u = 1 THEN s.state ELSE NoState]
        /\ fsm_data = [u \in Users |-> IF u = 1 THEN s.data ELSE EmptyData]
        /\ passed = [u \in Users |->
                        IF u = 1 /\ s.checked
                        THEN Recorded({}, Candidate(s.data), <<>>) ELSE {}]
    /\ tasks = [u \in Users |-> <<>>]
    /\ audit = [i \in 1 .. Len(bookings) |-> [user |-> 2, checked |-> TRUE, seen |-> 0]]
    /\ events = 0

NextSession ==
    \/ Booking(1)
    \/ Finding(1)
    \/ \E k \in 1 .. MaxTasks : BookingResumes(1, k)
    \/ \E k \in 1 .. MaxTasks : FindingResumes(1, k)

SpecSession == InitSession /\ [][NextSession]_vars

----------------------------------------------------------------------------
(* Properties of the persisted definitions (SpecSession)                   *)

\* the row was inserted by cb_booking_confirm of user 1 in this behaviour
InsertedHere(i) == i \in 1 .. Len(bookings) /\ audit[i].user = 1

AnchorDateOf(row) == DateOf(_parse_dt(row.start_dt))

\* C27: every persisted recurring definition that has an until date has it
\* strictly after its anchor date.
C27_UntilAfterAnchor ==
    \A i \in 1 .. Len(bookings) :
        (bookings[i].recurrence_type \in KnownRecurring
            /\ bookings[i].recurrence_until # None)
        => _parse_date(bookings[i].recurrence_until) > AnchorDateOf(bookings[i])

\* C28: every persisted definition of type None has no until date, and every
\* persisted daily, weekly or monthly definition has one.
C28_UntilIffRecurring ==
    \A i \in 1 .. Len(bookings) :
        /\ bookings[i].recurrence_type = "None" => bookings[i].recurrence_until = None
        /\ bookings[i].recurrence_type \in KnownRecurring
              => bookings[i].recurrence_until # None

\* C29: every persisted definition ends strictly after it starts.
C29_EndAfterStart ==
    \A i \in 1 .. Len(bookings) :
        _parse_dt(bookings[i].end_dt) > _parse_dt(bookings[i].start_dt)

\* the user went back to the duration step, typed the end 11:30 after 09:00
\* had been an option, and confirmed: the row ends at 11:30
C29_Witness ==
    \E i \in 1 .. Len(bookings) :
        /\ InsertedHere(i)
        /\ bookings[i].start_dt = IsoFormat(Today) \o <<10, 0>>
        /\ bookings[i].end_dt = IsoFormat(Today) \o <<11, 30>>

\* recurrence_days is a non-empty ascending list of distinct integers of lo .. hi
DaysListIn(days, lo, hi) ==
    /\ days # None
    /\ Len(days) >= 1
    /\ \A k \in 1 .. Len(days) : days[k] \in lo .. hi
    /\ \A j, k \in 1 .. Len(days) : j < k => days[j] < days[k]

\* C30: a persisted definition of type None or daily has no recurrence_days; a
\* weekly one has a non-empty ascending list of distinct days of 0 .. 6, a
\* monthly one of 1 .. 31.
C30_RecurrenceDaysShape ==
    \A i \in 1 .. Len(bookings) :
        LET row == bookings[i]
        IN  /\ row.recurrence_type \in { "None", "daily" } => row.recurrence_days = None
            /\ row.recurrence_type = "weekly" => DaysListIn(row.recurrence_days, 0, 6)
            /\ row.recurrence_type = "monthly" => DaysListIn(row.recurrence_days, 1, 31)
----------------------------------------------------------------------------
(* The writes to the tables of bookings and rooms:                         *)
(* src/db/queries/bookings.py, rooms.py and companies.py.  Every statement *)
(* that writes a row of bookings is in save_booking, cancel_booking,       *)
(* delete_room or delete_company.                                          *)

\* The rows of bookings that refer to a deleted room or company.  The
\* schema (models.sql) is not among the sources; by the lifecycle of a
\* definition a delete leaves them in the table, soft-deleted.
ReferencingRowsAfterDelete(table) == table

\* toggle_room_active: nothing when the SELECT finds no row
toggle_room_active(table, room_id) ==
    IF room_id \notin DOMAIN table THEN table
    ELSE [table EXCEPT ![room_id].is_active = ~table[room_id].is_active]

\* mutant: the rows of the room lose their room_id with the room
delete_room_detaching(tables, room_id) ==
    [bookings |-> [i \in 1 .. Len(tables.bookings) |->
                      IF tables.bookings[i].room_id = room_id
                      THEN [tables.bookings[i] EXCEPT !.is_cancelled = TRUE, !.room_id = 0]
                      ELSE tables.bookings[i]],
     rooms |-> [r \in DOMAIN tables.rooms \ {room_id} |-> tables.rooms[r]]]

\* delete_room: UPDATE bookings SET is_cancelled = 1 WHERE room_id = ?, then
\* DELETE FROM rooms WHERE id = ?
delete_room(tables, room_id) ==
    [bookings |-> ReferencingRowsAfterDelete(
                     [i \in 1 .. Len(tables.bookings) |->
                         IF tables.bookings[i].room_id = room_id
                         THEN [tables.bookings[i] EXCEPT !.is_cancelled = TRUE]
                         ELSE tables.bookings[i]]),
     rooms |-> [r \in DOMAIN tables.rooms \ {room_id} |-> tables.rooms[r]]]

\* mutant: the bookings are selected by the company of their room
delete_company_by_rooms(tables, company_id) ==
    LET OfCompany(r) == r \in DOMAIN tables.rooms /\ tables.rooms[r].company_id = company_id
    IN  [bookings |-> [i \in 1 .. Len(tables.bookings) |->
                          IF OfCompany(tables.bookings[i].room_id)
                          THEN [tables.bookings[i] EXCEPT !.is_cancelled = TRUE]
                          ELSE tables.bookings[i]],
         rooms |-> [r \in DOMAIN tables.rooms |->
                       IF OfCompany(r) THEN [tables.rooms[r] EXCEPT !.is_active = FALSE]
                       ELSE tables.rooms[r]]]

\* delete_company: UPDATE bookings SET is_cancelled = 1 WHERE company_id = ?
\* and UPDATE rooms SET is_active = 0 WHERE company_id = ?; the invite
\* tokens, the memberships and the company's own row are deleted
delete_company(tables, company_id) ==
    [bookings |-> ReferencingRowsAfterDelete(
                     [i \in 1 .. Len(tables.bookings) |->
                         IF tables.bookings[i].company_id = company_id
                         THEN [tables.bookings[i] EXCEPT !.is_cancelled = TRUE]
                         ELSE tables.bookings[i]]),
     rooms |-> [r \in DOMAIN tables.rooms |->
                   IF tables.rooms[r].company_id = company_id
                   THEN [tables.rooms[r] EXCEPT !.is_active = FALSE]
                   ELSE tables.rooms[r]]]

----------------------------------------------------------------------------
(* The write operations under bounded inputs: up to MaxCalls operations on *)
(* a store of up to MaxExisting rows.  Rooms 1 and 2 belong to company 1,  *)
(* room 3 to company 2.                                                    *)

StoreRoomIds == 1 .. 3

StoreCompanyIds == 1 .. 2

StoreRoomsTables ==
    { [r \in StoreRoomIds |->
          [id |-> r, company_id |-> IF r = 3 THEN 2 ELSE 1, name |-> RoomNames[r],
           is_active |-> r \in active]] : active \in SUBSET StoreRoomIds }

\* one-off definitions 10:00-11:00 on 2024-01-01: in rooms 1 and 3, saved
\* for either company, live or cancelled
StoreRows ==
    { [room_id |-> r, user_id |-> 1, company_id |-> c, title |-> "T",
       start_dt |-> SlotA[1], end_dt |-> SlotA[2], recurrence_type |-> "None",
       recurrence_days |-> None, recurrence_until |-> None, is_cancelled |-> x]
      : r \in {1, 3}, c \in StoreCompanyIds, x \in BOOLEAN }

StoreStores ==
    UNION { { WithIds(rows) : rows \in [1 .. n -> StoreRows] } : n \in 0 .. MaxExisting }

InitStore ==
    /\ bookings \in StoreStores
    /\ rooms \in StoreRoomsTables
    /\ call = [op |-> "none", arg |-> 0, calls |-> 0, bookings |-> bookings, rooms |-> rooms]
    /\ fsm_state = [u \in Users |-> NoState]
    /\ fsm_data = [u \in Users |-> EmptyData]
    /\ tasks = [u \in Users |-> <<>>]
    /\ passed = [u \in Users |-> {}]
    /\ audit = <<>>
    /\ events = 0

\* the operation op(arg) runs on the tables; the harness keeps the tables
\* it found
Called(op, arg) ==
    /\ call.calls < MaxCalls
    /\ call' = [op |-> op, arg |-> arg, calls |-> call.calls + 1,
                bookings |-> bookings, rooms |-> rooms]
    /\ UNCHANGED <<fsm_state, fsm_data, tasks, passed, audit, events>>

StoreSave(room_id, company_id) ==
    /\ Len(bookings) < MaxBookings
    /\ Called("save_booking", room_id)
    /\ bookings' = save_booking(bookings, room_id, 1, company_id, "T", SlotB[1], SlotB[2],
                                "None", None, None)
    /\ UNCHANGED rooms

StoreCancel(booking_id) ==
    /\ Called("cancel_booking", booking_id)
    /\ bookings' = cancel_booking(bookings, booking_id)
    /\ UNCHANGED rooms

StoreToggleRoom(room_id) ==
    /\ Called("toggle_room_active", room_id)
    /\ rooms' = toggle_room_active(rooms, room_id)
    /\ UNCHANGED bookings

StoreDeleteRoom(room_id) ==
    /\ Called("delete_room", room_id)
    /\ LET after == delete_room([bookings |-> bookings, rooms |-> rooms], room_id)
       IN  bookings' = after.bookings /\ rooms' = after.rooms

StoreDeleteCompany(company_id) ==
    /\ Called("delete_company", company_id)
    /\ LET after == delete_company([bookings |-> bookings, rooms |-> rooms], company_id)
       IN  bookings' = after.bookings /\ rooms' = after.rooms

NextStore ==
    \/ \E room_id \in {1, 3}, company_id \in StoreCompanyIds : StoreSave(room_id, company_id)
    \/ \E booking_id \in 1 .. MaxBookings : StoreCancel(booking_id)
    \/ \E room_id \in {1, 3} : StoreToggleRoom(room_id)
    \/ \E room_id \in {1, 3} : StoreDeleteRoom(room_id)
    \/ \E company_id \in StoreCompanyIds : StoreDeleteCompany(company_id)

SpecStore == InitStore /\ [][NextStore]_vars

----------------------------------------------------------------------------
(* Properties of the write operations (SpecStore)                          *)

StoreDone(op) == call.op = op

\* row b is row a, but for is_cancelled
SameButCancelled(a, b) == [a EXCEPT !.is_cancelled = b.is_cancelled] = b

C37_CancellationPermanent ==
    [][ /\ \A i \in 1 .. Len(bookings) :
            bookings[i].is_cancelled => i <= Len(bookings') /\ bookings'[i].is_cancelled
        /\ ( /\ call'.op = "cancel_booking"
             /\ call'.arg \in 1 .. Len(bookings)
             /\ bookings[call'.arg].is_cancelled ) => bookings' = bookings ]_vars

\* a definition was cancelled twice: by the deletion of its room, then by
\* cancel_booking
C37_Witness ==
    /\ StoreDone("cancel_booking") /\ call.calls = 2
    /\ call.arg \in 1 .. Len(bookings)
    /\ call.bookings[call.arg].is_cancelled
    /\ call.bookings[call.arg].room_id \notin DOMAIN call.rooms
    /\ bookings = call.bookings
----------------------------------------------------------------------------
(* Conflicts with occurrences that begin before the check window           *)
(* (SpecWindow)                                                            *)

\* the invariants of the data model: the anchor ends after it starts; a
\* definition has an until date iff it recurs, and then one after the anchor
\* date
SatisfiesDataModel(row) ==
    /\ _parse_dt(row.end_dt) > _parse_dt(row.start_dt)
    /\ row.recurrence_type = "None" <=> row.recurrence_until = None
    /\ row.recurrence_until # None =>
            _parse_date(row.recurrence_until) > DateOf(_parse_dt(row.start_dt))

\* C33: when check returns the empty list for a candidate and a store that
\* satisfy the invariants of the data model, no occurrence of the candidate
\* overlaps an occurrence of a live definition of the room, wherever that
\* occurrence begins: occurrences that span midnight, last 24 hours or begin
\* before the candidate's anchor date included.
C33_NoOverlapWhenEmpty ==
    ( /\ Checked
      /\ call.result = <<>>
      /\ SatisfiesDataModel(CandidateRow)
      /\ \A i \in 1 .. Len(bookings) : SatisfiesDataModel(bookings[i]) )
    => \A i \in { j \in 1 .. Len(bookings) : Considered(j) } :
          \A p \in EveryOccurrence(CandidateRow), e \in EveryOccurrence(bookings[i]) :
              ~Overlaps(p[1], p[2], e[1], e[2])
----------------------------------------------------------------------------
(* Repeated and late confirmations (Spec)                                  *)

\* this step inserts a row for user u
InsertsFor(u) ==
    /\ Len(bookings') = Len(bookings) + 1
    /\ bookings'[Len(bookings')].user_id = u

\* a handler cb_booking_confirm of user u has saved and not yet cleared the
\* session
ConfirmUnfinished(u) == \E k \in 1 .. Len(tasks[u]) : tasks[u][k].pc = "saved"

\* C34: a session that has reached confirming gets one definition inserted:
\* a 'booking_confirm' event handled after the first one, or while the first
\* one is still being handled, inserts no second copy of the definition.
C34_NoSecondCopy ==
    [][ \A u \in Users :
            InsertsFor(u) /\ ConfirmUnfinished(u) =>
                ~\E i \in 1 .. Len(bookings) :
                    [bookings[i] EXCEPT !.id = Len(bookings')] = bookings'[Len(bookings')] ]_vars
----------------------------------------------------------------------------
(* The booking wizard of user 1 while administrators toggle and delete     *)
(* rooms and a company.  Rooms 1 and 2 belong to company 1, the active     *)
(* company of the wizard's users; room 3 belongs to company 2, which its   *)
(* last administrator deletes.                                             *)

\* cb_delete_room_confirm of an administrator: delete_room(room_id)
cb_delete_room_confirm(room_id) ==
    /\ events < MaxEvents
    /\ events' = events + 1
    /\ LET after == delete_room([bookings |-> bookings, rooms |-> rooms], room_id)
       IN  bookings' = after.bookings /\ rooms' = after.rooms
    /\ UNCHANGED <<call, fsm_state, fsm_data, tasks, passed, audit>>

\* cb_delete_company_confirm of the last administrator of the company:
\* delete_company(active_company["company_id"])
cb_delete_company_confirm(company_id) ==
    /\ events < MaxEvents
    /\ events' = events + 1
    /\ LET after == delete_company([bookings |-> bookings, rooms |-> rooms], company_id)
       IN  bookings' = after.bookings /\ rooms' = after.rooms
    /\ UNCHANGED <<call, fsm_state, fsm_data, tasks, passed, audit>>

AdminRoomsTable ==
    [r \in StoreRoomIds |->
        [id |-> r, company_id |-> IF r = 3 THEN 2 ELSE 1, name |-> RoomNames[r],
         is_active |-> TRUE]]

\* a definition of user 2 for company 2 in room 3, Tuesday 2024-01-02
\* 10:00-11:00
StoredForOtherCompany ==
    save_booking(<<>>, 3, 2, 2, <<"T">>, SlotF[1], SlotF[2], "None", None, None)

\* User 1 is at rest or has come as far as the recurrence question for
\* room 1, which was active when the wizard started.
InitAdmin ==
    /\ bookings \in { <<>>, StoredForOtherCompany }
    /\ call = IdleCall
    /\ rooms = AdminRoomsTable
    /\ \E started \in BOOLEAN :
        /\ fsm_state = [u \in Users |->
                            IF u = 1 /\ started THEN "choosing_recurrence" ELSE NoState]
        /\ fsm_data = [u \in Users |-> IF u = 1 /\ started THEN StartedData(u) ELSE EmptyData]
        /\ passed = [u \in Users |->
                        IF u = 1 /\ started
                        THEN Recorded({}, Candidate(StartedData(u)), <<>>) ELSE {}]
    /\ tasks = [u \in Users |-> <<>>]
    /\ audit = [i \in 1 .. Len(bookings) |-> [user |-> 2, checked |-> TRUE, seen |-> 0]]
    /\ events = 0

NextAdmin ==
    \/ Booking(1)
    \/ \E k \in 1 .. MaxTasks : BookingResumes(1, k)
    \/ \E room_id \in {1} : cb_toggle_room(room_id)
    \/ \E room_id \in {1} : cb_delete_room_confirm(room_id)
    \/ \E company_id \in {2} : cb_delete_company_confirm(company_id)

SpecAdmin == InitAdmin /\ [][NextAdmin]_vars

\* C35: no definition is inserted for a room that is inactive, or no longer
\* in the table of rooms, when the row is inserted: the room that was
\* available when the wizard started is available when the confirm handler
\* saves, however the wizard interleaves with toggle_room_active,
\* delete_room and delete_company.
C35_InsertOnlyForAvailableRoom ==
    [][ \A u \in Users :
            InsertsFor(u) =>
                LET room == get_room(bookings'[Len(bookings')].room_id)
                IN  room # None /\ room.is_active ]_vars
----------------------------------------------------------------------------
(* Cancellation by the owner (SpecSession, where every update is user 1's) *)

\* C36: a 'cancel_booking_id' action of user 1 cancels only a definition
\* that user 1 owns in the active company: it never changes is_cancelled of
\* a definition of another user.
C36_CancelOnlyOwn ==
    [][ \A i \in 1 .. Len(bookings) :
            bookings[i].user_id # 1 \/ bookings[i].company_id # ActiveCompany
                => bookings'[i].is_cancelled = bookings[i].is_cancelled ]_vars
----------------------------------------------------------------------------
(* Sessions that end without a confirmation (SpecSession)                  *)

\* the step in which the session of user u ends unconfirmed: state.clear()
\* after the conflicts have been shown, the cancel button, the main menu
EndsUnconfirmed(u) ==
    \/ \E k \in 1 .. Len(tasks[u]) : clear_after_reply(u, k)
    \/ cb_cancel_booking_flow(u)
    \/ cb_main_menu(u)

----------------------------------------------------------------------------
(* The while loop of _expand_occurrences, one iteration per step: the      *)
(* cursor, the number of iterations and the results so far are kept in the *)
(* call.                                                                   *)

LoopWindowEnds == EdgeWindowEnds \cup { Jan1 + ExpandHorizon - 1 }

InitLoop ==
    /\ bookings = <<>>
    /\ call \in { [op |-> "expand", pc |-> "ready", booking |-> b,
                   window_start |-> ws, window_end |-> we, result |-> <<>>,
                   cursor |-> 0, steps |-> 0]
                  : b \in EdgeBookings, ws \in EdgeWindowStarts, we \in LoopWindowEnds }
    /\ WizardIdle

\* until = _parse_date(until_str) if until_str else window_end
LoopUntil ==
    IF call.booking.recurrence_until # None THEN _parse_date(call.booking.recurrence_until)
    ELSE call.window_end

\* rec_type is None: the anchor is returned, or nothing, without a loop
ExpandAnchor ==
    /\ call.pc = "ready"
    /\ call.booking.recurrence_type = "None"
    /\ call' = [call EXCEPT
                    !.pc = "done",
                    !.result = _expand_occurrences(call.booking, call.window_start,
                                                   call.window_end)]
    /\ UNCHANGED <<bookings, wizard>>

\* cursor = start.date()
LoopEnter ==
    /\ call.pc = "ready"
    /\ call.booking.recurrence_type # "None"
    /\ call' = [call EXCEPT !.pc = "loop",
                            !.cursor = DateOf(_parse_dt(call.booking.start_dt))]
    /\ UNCHANGED <<bookings, wizard>>

\* one iteration: the occurrence is appended when the cursor is in the
\* window and included; cursor += timedelta(days=1)
LoopStep ==
    /\ call.pc = "loop"
    /\ LoopContinues(call.cursor, LoopUntil, call.window_end)
    /\ LET start == _parse_dt(call.booking.start_dt)
           end == _parse_dt(call.booking.end_dt)
           include == /\ call.cursor >= call.window_start
                      /\ Include(call.booking.recurrence_type, call.cursor,
                                 DayNums(call.booking.recurrence_days))
       IN  call' = [call EXCEPT
                        !.result = IF include
                                   THEN Append(call.result, Occurrence(call.cursor, start, end))
                                   ELSE call.result,
                        !.cursor = call.cursor + 1,
                        !.steps = call.steps + 1]
    /\ UNCHANGED <<bookings, wizard>>

\* the loop condition is false: return results
LoopExit ==
    /\ call.pc = "loop"
    /\ ~LoopContinues(call.cursor, LoopUntil, call.window_end)
    /\ call' = [call EXCEPT !.pc = "done"]
    /\ UNCHANGED <<bookings, wizard>>

NextLoop == ExpandAnchor \/ LoopEnter \/ LoopStep \/ LoopExit

\* the function runs on: a coroutine between two awaits is never preempted
\* for good
SpecLoop == InitLoop /\ [][NextLoop]_vars /\ WF_vars(NextLoop)

\* the number of dates from the anchor date to min(until, window_end)
LoopBound ==
    Max(0, Min(LoopUntil, call.window_end) - DateOf(_parse_dt(call.booking.start_dt)) + 1)

\* the loop machine returns what _expand_occurrences returns
LoopAgrees ==
    call.pc = "done" =>
        call.result = _expand_occurrences(call.booking, call.window_start, call.window_end)

\* C39: expand terminates for every definition and every window: each
\* iteration moves the cursor one day on, the loop ends once the cursor has
\* passed min(until, window_end), and the number of iterations is at most
\* the number of dates from the anchor date to min(until, window_end), zero
\* when that date is before the anchor date.
C39_ExpandTerminates ==
    /\ [](call.steps <= LoopBound)
    /\ [][call'.steps # call.steps =>
            call'.steps = call.steps + 1 /\ call'.cursor = call.cursor + 1]_vars
    /\ <>(call.pc = "done")

\* a daily definition anchored on 2024-01-01 with until 2024-01-14 against
\* a window that ends later: 14 iterations
C39_Witness ==
    /\ call.pc = "done"
    /\ call.booking.recurrence_type = "daily"
    /\ call.booking.recurrence_until = <<2024, 1, 14>>
    /\ call.window_end = Jan1 + ExpandHorizon - 1
    /\ call.steps = 14
    /\ Len(call.result) > 0

====
